---- MODULE Spec2Model ----
(***************************************************************************)
(* smart-pantry: the inventory store, the freshness classification of the  *)
(* stats endpoint and of the React views, the recipe matcher of the Gemini *)
(* service with its route, and the RecipeView that falls back to the       *)
(* static catalogue.                                                       *)
(*                                                                         *)
(* Time is counted in hours since the Unix epoch (the code counts          *)
(* milliseconds; every date the code builds from a "YYYY-MM-DD" string is  *)
(* a UTC midnight, so hours keep every comparison the code makes between   *)
(* a stored date and an instant that is sampled on the hour).              *)
(* Strings that the code inspects character by character (ingredient and   *)
(* item names) are sequences of one-character strings.                     *)
(***************************************************************************)
EXTENDS Integers, Sequences, FiniteSets, TLC

VARIABLES
    now,          \* the instant new Date() returns, in hours since the epoch
    ingredients,  \* the rows of the ingredients table
    nextId,       \* the next id uuidv4() hands out
    res,          \* the response written by the handler that ran in the last step
    rendered,     \* what the React views computed in the last step
    req,          \* the request handled in the last step, for the routes whose
                  \* properties read it
    gemini,       \* the generator call of the last step: argument, output, result
    mainApp,      \* the state of the MainApp component
    recipeView,   \* the state of the mounted RecipeView component
    inflight,     \* the recipe requests of the RecipeView that have not settled
    preferences,  \* the rows of the notification_preferences table, by user
    pushed,       \* what the last run of sendExpiryNotifications selected and sent
    usageStats,   \* the rows of the usage_stats table, in rowid order
    receipts,     \* the rows of the receipts table, in rowid order
    subscriptions, \* the rows of the push_subscriptions table, in rowid order
    delivery,     \* the position of the running sendNotificationToUser call
    users,        \* the rows of the users table, in rowid order
    registering,  \* the registrations that wait for the hash of their password
    scanner       \* the state of the mounted ScannerView component

vars == <<now, ingredients, nextId, res, rendered, req, gemini, mainApp, recipeView, inflight,
          preferences, pushed, usageStats, receipts, subscriptions, delivery,
          users, registering, scanner>>

\* The state of the browser, which no request handler touches
client == <<mainApp, recipeView, inflight>>

\* The state of the notification service, which no inventory or recipe
\* handler touches
notify == <<preferences, pushed>>

\* The push subscriptions and the delivery loop over them
push == <<subscriptions, delivery>>

\* The accounts and the registrations under way
accounts == <<users, registering>>

-----------------------------------------------------------------------------
(* Bounds *)

MaxItems == 2
MaxTicks == 3

-----------------------------------------------------------------------------
(* Dates: new Date("YYYY-MM-DD").getTime() *)

DayLen == 24

\* Days since 1970-01-01 of the civil date <<y, m, d>> (proleptic Gregorian),
\* which is what Date.parse of a date-only ISO string divides out to.
DaysFromCivil(date) ==
    LET y   == IF date[2] <= 2 THEN date[1] - 1 ELSE date[1]
        era == y \div 400
        yoe == y - era * 400
        mp  == IF date[2] > 2 THEN date[2] - 3 ELSE date[2] + 9
        doy == (153 * mp + 2) \div 5 + date[3] - 1
        doe == yoe * 365 + yoe \div 4 - yoe \div 100 + doy
    IN  era * 146097 + doe - 719468

\* new Date(dateStr).getTime(), in hours
DateGetTime(date) == DaysFromCivil(date) * DayLen

\* Math.ceil(a / b) for b > 0 (a may be negative; -0 compares as 0)
MathCeilDiv(a, b) == 0 - ((0 - a) \div b)

\* Math.round(a / b) for a >= 0, b > 0: floor(a / b + 1/2)
MathRoundDiv(a, b) == (2 * a + b) \div (2 * b)

-----------------------------------------------------------------------------
(* The freshness classification of the React views *)

DaysUntil(dateStr, t) == MathCeilDiv(DateGetTime(dateStr) - t, DayLen)

getExpiryStatus_lt3(dateStr, t) ==
    LET days == DaysUntil(dateStr, t)
    IN  IF days < 0 THEN [status |-> "expired", days |-> days]
        ELSE IF days < 3 THEN [status |-> "expiring", days |-> days]
        ELSE [status |-> "fresh", days |-> days]

getExpiryStatus_floor(dateStr, t) ==
    LET days == (DateGetTime(dateStr) - t) \div DayLen
    IN  IF days < 0 THEN [status |-> "expired", days |-> days]
        ELSE IF days <= 3 THEN [status |-> "expiring", days |-> days]
        ELSE [status |-> "fresh", days |-> days]

\* DashboardView.getExpiryStatus
getExpiryStatus(dateStr, t) ==
    LET days == DaysUntil(dateStr, t)
    IN  IF days < 0 THEN [status |-> "expired", days |-> days]
        ELSE IF days <= 3 THEN [status |-> "expiring", days |-> days]
        ELSE [status |-> "fresh", days |-> days]

\* PantryView.getExpiryStatus: the badge colour and the label, which is
\* 'EXPIRED', `${days}d left` or `${days} days`
PantryExpiryStatus(dateStr, t) ==
    LET days == DaysUntil(dateStr, t)
    IN  IF days < 0 THEN [color |-> "red", label |-> <<"EXPIRED">>, days |-> days]
        ELSE IF days <= 3
             THEN [color |-> "orange", label |-> <<days, "d left">>, days |-> days]
        ELSE [color |-> "green", label |-> <<days, " days">>, days |-> days]

-----------------------------------------------------------------------------
(* Request inputs *)

Users == {"u1", "u2"}

validCategories == {"Produce", "Dairy", "Pantry", "Meat", "Other"}

Milk == <<"M", "i", "l", "k">>
Eggs == <<"E", "g", "g", "s">>

\* The clock starts at 2024-06-10T00:00Z and is sampled every TickLen hours.
StartDate == <<2024, 6, 10>>
TickLen == 12

DatePool ==
    {<<2024, 6, 9>>, <<2024, 6, 10>>, <<2024, 6, 12>>, <<2024, 6, 13>>, <<2024, 6, 14>>}

\* req.body of POST /api/inventory; '' stands for a missing (falsy) field
AddBodies ==
    [name : {Milk}, category : {"Dairy", "Snacks"}, quantity : {"1"},
     expiryDate : DatePool]
    \cup [name : {Milk, <<>>}, category : {"Dairy", ""}, quantity : {"1"},
          expiryDate : {<<2024, 6, 12>>, <<>>}]

NoRes == [route |-> "none"]
NoRender == [view |-> "none"]
NoReq == [route |-> "none"]
NoCall == [called |-> FALSE]
NoPush == [ran |-> FALSE]

\* No call of sendNotificationToUser is running.
NoDelivery == [active |-> FALSE]

\* A user without a row in notification_preferences: an account that was not
\* created by POST /register, which inserts the row (u2 is one, u1 is not)
NoPref == [row |-> FALSE]

\* The row that INSERT INTO notification_preferences (user_id) creates from
\* the column defaults
DefaultPref ==
    [row |-> TRUE, expiry_days_before |-> 3, daily_summary |-> 1, notify_time |-> "09:00",
     enabled |-> 1]

\* useState of RecipeView: recipes [], loading false, error ''
Unmounted == [recipes |-> <<>>, loading |-> FALSE, error |-> ""]

\* A ScannerView as useState leaves it on mount. calls lists the arguments of
\* the setProgress calls of the running processFile; connected, file,
\* awaiting, result, timer, interval and i are the closure of that call: the
\* backendConnected it read, its file, the pending processReceipt promise, its
\* result, the pending setTimeout, the running setInterval and its counter.
ScannerMounted ==
    [step |-> "upload", progress |-> 0, parsedItems |-> <<>>, calls |-> <<>>,
     connected |-> FALSE, file |-> "none", awaiting |-> FALSE, result |-> <<>>,
     timer |-> FALSE, interval |-> FALSE, i |-> 0]

-----------------------------------------------------------------------------
(* The ingredients table *)

\* SELECT ... FROM ingredients WHERE user_id = ?
UserRows(rows, userId) == {r \in rows : r.user_id = userId}

RECURSIVE InsertKeyed(_, _)
\* The step of a stable insertion sort over <<key, element>> pairs: x moves
\* in front of the elements whose key is greater, and stays behind equal keys.
InsertKeyed(s, x) ==
    IF s = <<>> THEN <<x>>
    ELSE IF x[1] < s[Len(s)][1]
         THEN Append(InsertKeyed(SubSeq(s, 1, Len(s) - 1), x), s[Len(s)])
    ELSE Append(s, x)

RECURSIVE SortKeyed(_)
SortKeyed(s) ==
    IF s = <<>> THEN <<>>
    ELSE InsertKeyed(SortKeyed(SubSeq(s, 1, Len(s) - 1)), s[Len(s)])

\* The elements of a sequence of <<key, element>> pairs by ascending key,
\* equal keys in their original order
SortAscending(keyed) ==
    LET sorted == SortKeyed(keyed)
    IN  [i \in 1..Len(keyed) |-> sorted[i][2]]

RECURSIVE RowsInIdOrder(_)
\* the rows of a set in insertion (rowid) order
RowsInIdOrder(rows) ==
    IF rows = {} THEN <<>>
    ELSE LET r == CHOOSE x \in rows : \A y \in rows : x.id <= y.id
         IN  <<r>> \o RowsInIdOrder(rows \ {r})

ExpiryKey(item) == DaysFromCivil(item.expiryDate)

\* SELECT id, name, category, quantity, expiry_date as expiryDate ...
Project(r) ==
    [id |-> r.id, name |-> r.name, category |-> r.category,
     quantity |-> r.quantity, expiryDate |-> r.expiry_date]

\* GET /api/inventory with the default sort: ORDER BY expiry_date ASC
\* (ISO date strings order as their dates; equal dates stay in rowid order)
GetInventory(rows, userId) ==
    LET all == RowsInIdOrder(UserRows(rows, userId))
    IN  SortAscending([i \in 1..Len(all) |-> <<ExpiryKey(Project(all[i])), Project(all[i])>>])

\* Node runs one handler at a time, to its response: a request is taken when
\* the response of the one before it has been sent.
Idle ==
    /\ res = NoRes /\ rendered = NoRender /\ req = NoReq /\ gemini = NoCall
    /\ pushed = NoPush

\* The response is sent (the view is painted) and the handler returns.
Respond ==
    /\ ~Idle
    /\ res' = NoRes
    /\ rendered' = NoRender
    /\ req' = NoReq
    /\ gemini' = NoCall
    /\ pushed' = NoPush
    /\ UNCHANGED <<now, ingredients, nextId>>

-----------------------------------------------------------------------------
(* GET /api/inventory/stats *)

ZeroTally == [expired |-> 0, expiring |-> 0, fresh |-> 0]

StatsCount_noElse(c, expiry_date, today, threeDaysFromNow) ==
    LET expiryDate == DateGetTime(expiry_date)
        c1 == IF expiryDate < today THEN [c EXCEPT !.expired = @ + 1] ELSE c
    IN  IF expiryDate <= threeDaysFromNow THEN [c1 EXCEPT !.expiring = @ + 1]
        ELSE [c1 EXCEPT !.fresh = @ + 1]

\* The body of allItems.forEach: one item moves one counter
StatsCount(c, expiry_date, today, threeDaysFromNow) ==
    LET expiryDate == DateGetTime(expiry_date)
    IN  IF expiryDate < today THEN [c EXCEPT !.expired = @ + 1]
        ELSE IF expiryDate <= threeDaysFromNow THEN [c EXCEPT !.expiring = @ + 1]
        ELSE [c EXCEPT !.fresh = @ + 1]

RECURSIVE StatsTally(_, _, _)
StatsTally(allItems, today, threeDaysFromNow) ==
    IF allItems = <<>> THEN ZeroTally
    ELSE StatsCount(StatsTally(SubSeq(allItems, 1, Len(allItems) - 1), today, threeDaysFromNow),
                    allItems[Len(allItems)].expiry_date, today, threeDaysFromNow)

\* The civil date <<y, m, d>> of a day count since 1970-01-01
CivilFromDays(z) ==
    LET zz  == z + 719468
        era == zz \div 146097
        doe == zz - era * 146097
        yoe == (doe - doe \div 1460 + doe \div 36524 - doe \div 146096) \div 365
        doy == doe - (365 * yoe + yoe \div 4 - yoe \div 100)
        mp  == (5 * doy + 2) \div 153
        d   == doy - (153 * mp + 2) \div 5 + 1
        m   == IF mp < 10 THEN mp + 3 ELSE mp - 9
        y   == yoe + era * 400
    IN  <<IF m <= 2 THEN y + 1 ELSE y, m, d>>

\* today.toISOString().slice(0, 7): the year and the month
currentMonth(today) ==
    LET date == CivilFromDays(today \div DayLen) IN <<date[1], date[2]>>

NoUsage == [found |-> FALSE]

\* SELECT estimated_savings, co2_saved FROM usage_stats
\* WHERE user_id = ? AND month = ?, .get(): the first row that matches
UsageLookup(usage, userId, month) ==
    LET hits == {i \in 1..Len(usage) : usage[i].user_id = userId /\ usage[i].month = month}
    IN  IF hits = {} THEN NoUsage
        ELSE LET first == CHOOSE i \in hits : \A j \in hits : i <= j
             IN  [found |-> TRUE, estimated_savings |-> usage[first].estimated_savings,
                  co2_saved |-> usage[first].co2_saved]

\* usageStats?.estimated_savings ? `$${estimated_savings.toFixed(0)}`
\*                                : `$${Math.round((total - expired) * 3.5)}`
\* (a row value of 0 is falsy; estimated_savings is a whole number here)
wasteSaved(row, total, expired) ==
    IF row.found /\ row.estimated_savings # 0 THEN <<"$", row.estimated_savings>>
    ELSE <<"$", MathRoundDiv((total - expired) * 7, 2)>>

\* usageStats?.co2_saved ? `${co2_saved.toFixed(1)}kg`
\*                        : `${Math.round((total - expired) * 0.8)}kg`
\* (co2_saved is counted in tenths of a kilogram)
co2Reduced(row, total, expired) ==
    IF row.found /\ row.co2_saved # 0
    THEN <<row.co2_saved \div 10, ".", row.co2_saved % 10, "kg">>
    ELSE <<MathRoundDiv((total - expired) * 8, 10), "kg">>

\* The data of the stats response. threeDaysFromNow is today with setDate(+3):
\* the same time of day three days on.
StatsData(rows, usage, userId, today) ==
    LET threeDaysFromNow == today + 3 * DayLen
        allItems == RowsInIdOrder(UserRows(rows, userId))
        c     == StatsTally(allItems, today, threeDaysFromNow)
        total == Len(allItems)
        row   == UsageLookup(usage, userId, currentMonth(today))
    IN  [total |-> total, expiring |-> c.expiring, expired |-> c.expired,
         fresh |-> c.fresh,
         wasteSaved |-> wasteSaved(row, total, c.expired),
         co2Reduced |-> co2Reduced(row, total, c.expired)]

GetStats(u) ==
    /\ Idle
    /\ res' = [route |-> "GET /stats", user |-> u, status |-> 200, success |-> TRUE,
               data |-> StatsData(ingredients, usageStats, u, now)]
    /\ rendered' = NoRender
    /\ req' = NoReq /\ gemini' = NoCall
    /\ UNCHANGED <<now, ingredients, nextId>>

-----------------------------------------------------------------------------
(* POST /api/inventory, DELETE /api/inventory/:id *)

\* !v for a request field: a missing field and the empty string are both
\* falsy. Names and dates are sequences (empty when missing), category and
\* quantity are atoms ("" when missing).
FalsySeq(v) == v = <<>>
FalsyAtom(v) == v = ""

AddItem(u, body) ==
    /\ Idle
    /\ nextId <= MaxItems
    /\ rendered' = NoRender
    /\ req' = NoReq /\ gemini' = NoCall
    /\ UNCHANGED now
    /\ IF FalsySeq(body.name) \/ FalsyAtom(body.category) \/ FalsyAtom(body.quantity)
          \/ FalsySeq(body.expiryDate)
       THEN /\ res' = [route |-> "POST /", user |-> u, status |-> 400,
                       success |-> FALSE, error |-> "Missing required fields"]
            /\ UNCHANGED <<ingredients, nextId>>
       ELSE IF body.category \notin validCategories
       THEN /\ res' = [route |-> "POST /", user |-> u, status |-> 400,
                       success |-> FALSE, error |-> "Invalid category"]
            /\ UNCHANGED <<ingredients, nextId>>
       ELSE /\ ingredients' = ingredients \cup
                   {[id |-> nextId, user_id |-> u, name |-> body.name,
                     category |-> body.category, quantity |-> body.quantity,
                     expiry_date |-> body.expiryDate]}
            /\ nextId' = nextId + 1
            /\ res' = [route |-> "POST /", user |-> u, status |-> 201, success |-> TRUE,
                       data |-> [id |-> nextId, name |-> body.name,
                                 category |-> body.category, quantity |-> body.quantity,
                                 expiryDate |-> body.expiryDate]]

DeleteItem(u, id) ==
    /\ Idle
    /\ rendered' = NoRender
    /\ req' = NoReq /\ gemini' = NoCall
    /\ UNCHANGED <<now, nextId>>
    /\ IF \E r \in ingredients : r.id = id /\ r.user_id = u
       THEN /\ ingredients' = {r \in ingredients : ~(r.id = id /\ r.user_id = u)}
            /\ res' = [route |-> "DELETE /:id", user |-> u, status |-> 200,
                       success |-> TRUE, data |-> [deleted |-> id]]
       ELSE /\ res' = [route |-> "DELETE /:id", user |-> u, status |-> 404,
                       success |-> FALSE, error |-> "Item not found"]
            /\ UNCHANGED ingredients

-----------------------------------------------------------------------------
(* MainApp.loadData and the views it renders *)

\* DashboardView: `$${Math.round(inventory.length * 3.5)}`
DashboardWasteSaved(inventory) == <<"$", MathRoundDiv(Len(inventory) * 7, 2)>>

\* DashboardView: `${Math.round(inventory.length * 0.8)}kg`
DashboardCo2Reduced(inventory) == <<MathRoundDiv(Len(inventory) * 8, 10), "kg">>

\* api.getInventory() then setInventory(items); DashboardView and PantryView
\* classify every item of the inventory against new Date() when they render.
LoadData(u) ==
    /\ Idle
    /\ LET items == GetInventory(ingredients, u)
       IN  /\ rendered' =
                  [view |-> "inventory", user |-> u, inventory |-> items,
                   dashboard |-> [i \in 1..Len(items) |->
                                     getExpiryStatus(items[i].expiryDate, now)],
                   pantry |-> [i \in 1..Len(items) |->
                                  PantryExpiryStatus(items[i].expiryDate, now)],
                   wasteSaved |-> DashboardWasteSaved(items),
                   co2Reduced |-> DashboardCo2Reduced(items)]
           /\ res' = [route |-> "GET /", user |-> u, status |-> 200, success |-> TRUE,
                      data |-> items]
    /\ req' = NoReq /\ gemini' = NoCall
    /\ UNCHANGED <<now, ingredients, nextId>>

\* Time passes between requests.
Tick ==
    /\ Idle
    /\ now < DateGetTime(StartDate) + MaxTicks * TickLen
    /\ now' = now + TickLen
    /\ res' = NoRes
    /\ rendered' = NoRender
    /\ req' = NoReq /\ gemini' = NoCall
    /\ UNCHANGED <<ingredients, nextId>>

-----------------------------------------------------------------------------
(* The inventory store, its statistics and the views over it *)

Init ==
    /\ now = DateGetTime(StartDate)
    /\ ingredients = {}
    /\ nextId = 1
    /\ res = NoRes
    /\ rendered = NoRender
    /\ req = NoReq
    /\ gemini = NoCall
    /\ mainApp = [activeTab |-> "dashboard", inventory |-> <<>>,
                  backendStatus |-> "checking", searchQuery |-> <<>>]
    /\ recipeView = Unmounted
    /\ inflight = <<>>
    /\ preferences = [u \in Users |-> IF u = "u1" THEN DefaultPref ELSE NoPref]
    /\ pushed = NoPush
    /\ usageStats = <<>>
    /\ receipts = <<>>
    /\ subscriptions = <<>>
    /\ delivery = NoDelivery
    /\ users = <<[id |-> "u1", email |-> <<"a">>, name |-> "N"],
                 [id |-> "u2", email |-> <<"b">>, name |-> "N"]>>
    /\ registering = <<>>
    /\ scanner = ScannerMounted

Next ==
    \/ Idle /\ UNCHANGED <<client, notify, usageStats, receipts, push, accounts, scanner>>
            /\ \E u \in Users, body \in AddBodies : AddItem(u, body)
    \/ Idle /\ UNCHANGED <<client, notify, usageStats, receipts, push, accounts, scanner>>
            /\ \E u \in Users, id \in 1..MaxItems : DeleteItem(u, id)
    \/ Idle /\ UNCHANGED <<client, notify, usageStats, receipts, push, accounts, scanner>> /\ \E u \in Users : GetStats(u)
    \/ Idle /\ UNCHANGED <<client, notify, usageStats, receipts, push, accounts, scanner>> /\ \E u \in Users : LoadData(u)
    \/ Tick /\ UNCHANGED <<client, notify, usageStats, receipts, push, accounts, scanner>>
    \/ Respond /\ UNCHANGED <<client, preferences, usageStats, receipts, push, accounts, scanner>>

Spec == Init /\ [][Next]_vars

-----------------------------------------------------------------------------
(* Properties of the freshness classification and of the statistics *)

Buckets == {"expired", "expiring", "fresh"}

\* The rows of the requester that the stats branch conditions select
RowsExpired(rows, t) == {r \in rows : DateGetTime(r.expiry_date) < t}
RowsExpiring(rows, t) ==
    {r \in rows : t <= DateGetTime(r.expiry_date) /\ DateGetTime(r.expiry_date) <= t + 3 * DayLen}
RowsFresh(rows, t) == {r \in rows : DateGetTime(r.expiry_date) > t + 3 * DayLen}

\* C1: every classification is exactly one of the three buckets. In the views
\* the status is expired exactly when days < 0, expiring exactly when
\* 0 <= days <= 3 and fresh exactly when days > 3; in the stats response every
\* item of the requester is counted in exactly one of the three counters, the
\* one its branch condition selects.
C1_BucketsPartition ==
    /\ rendered.view = "inventory" =>
           \A i \in 1..Len(rendered.dashboard) :
               LET s == rendered.dashboard[i]
               IN  /\ s.status \in Buckets
                   /\ (s.status = "expired") <=> (s.days < 0)
                   /\ (s.status = "expiring") <=> (0 <= s.days /\ s.days <= 3)
                   /\ (s.status = "fresh") <=> (s.days > 3)
    /\ res.route = "GET /stats" =>
           LET mine == UserRows(ingredients, res.user)
           IN  /\ res.data.expired = Cardinality(RowsExpired(mine, now))
               /\ res.data.expiring = Cardinality(RowsExpiring(mine, now))
               /\ res.data.fresh = Cardinality(RowsFresh(mine, now))

\* A render that shows an item at the threshold and one just past it
C1_Witness ==
    /\ rendered.view = "inventory"
    /\ \E i, j \in 1..Len(rendered.dashboard) :
           /\ rendered.dashboard[i].days = 3 /\ rendered.dashboard[i].status = "expiring"
           /\ rendered.dashboard[j].days = 4 /\ rendered.dashboard[j].status = "fresh"

\* C2: the views compute days as the ceiling of the difference in days, and
\* classify days = 3 as expiring, days = 4 as fresh and days = -1 as expired;
\* on 2024-06-10 (epoch day 19884) an item expiring 2024-06-12 has days = 2
\* and is expiring.
C2_Boundaries ==
    rendered.view = "inventory" =>
        \A i \in 1..Len(rendered.inventory) :
            LET item == rendered.inventory[i]
                d == rendered.dashboard[i]
                p == rendered.pantry[i]
                diff == DateGetTime(item.expiryDate) - now
            IN  /\ p.days = d.days
                /\ (d.days - 1) * DayLen < diff /\ diff <= d.days * DayLen
                /\ d.days = 3 => d.status = "expiring" /\ p.color = "orange"
                /\ d.days = 4 => d.status = "fresh" /\ p.color = "green"
                /\ d.days = 0 - 1 => d.status = "expired" /\ p.color = "red"
                /\ (now \div DayLen = 19884 /\ item.expiryDate = <<2024, 6, 12>>)
                       => d.days = 2 /\ d.status = "expiring" /\ p.color = "orange"

\* The scenario's render in the middle of 2024-06-10
C2_Witness ==
    /\ rendered.view = "inventory"
    /\ now = 19884 * DayLen + 12
    /\ \E i \in 1..Len(rendered.inventory) :
           /\ rendered.inventory[i].expiryDate = <<2024, 6, 12>>
           /\ rendered.dashboard[i] = [status |-> "expiring", days |-> 2]

\* C3: an item that expires on the calendar day of the reference instant is
\* expiring (day count 0), never expired, whatever the time of day, in the
\* views and in the stats tally alike.
C3_TodayIsExpiringSoon ==
    /\ rendered.view = "inventory" =>
           \A i \in 1..Len(rendered.inventory) :
               DaysFromCivil(rendered.inventory[i].expiryDate) = now \div DayLen
                   => rendered.dashboard[i] = [status |-> "expiring", days |-> 0]
    /\ res.route = "GET /stats" =>
           LET mine == UserRows(ingredients, res.user)
               today == {r \in mine : DaysFromCivil(r.expiry_date) = now \div DayLen}
               earlier == {r \in mine : DaysFromCivil(r.expiry_date) < now \div DayLen}
           IN  /\ res.data.expiring >= Cardinality(today)
               /\ res.data.expired <= Cardinality(earlier)

\* C4: the three counts of a stats response add up to its total, the total is
\* the number of rows of the requester, and all four are 0 for a requester
\* without rows.
C4_CountsSumToTotal ==
    res.route = "GET /stats" =>
        LET mine == UserRows(ingredients, res.user)
        IN  /\ res.data.expired + res.data.expiring + res.data.fresh = res.data.total
            /\ res.data.total = Cardinality(mine)
            /\ mine = {} => /\ res.data.total = 0 /\ res.data.expired = 0
                            /\ res.data.expiring = 0 /\ res.data.fresh = 0

\* A stats response over two items that fall in different buckets
C4_Witness ==
    /\ res.route = "GET /stats"
    /\ res.data.total = 2
    /\ res.data.expired = 1
    /\ res.data.fresh = 1

-----------------------------------------------------------------------------
(* services/gemini: generateRecipeSuggestions *)

MaxRecipes == 3

Cheese == <<"C", "h", "e", "e", "s", "e">>

\* Number values that are not integers of the model: the NaN that 0 / 0
\* yields, and the null that JSON.stringify writes for it.
NaN == -1
Null == -2

\* The elements the generator may put in its JSON array. An element with
\* lists = FALSE carries no usedIngredients / missingIngredients arrays.
Candidates ==
    {[title |-> "A", lists |-> TRUE, usedIngredients |-> <<Milk>>, missingIngredients |-> <<>>],
     [title |-> "B", lists |-> TRUE, usedIngredients |-> <<>>, missingIngredients |-> <<Cheese>>],
     [title |-> "C", lists |-> TRUE, usedIngredients |-> <<Milk>>, missingIngredients |-> <<Cheese>>],
     [title |-> "D", lists |-> TRUE, usedIngredients |-> <<Eggs>>, missingIngredients |-> <<Milk>>],
     [title |-> "E", lists |-> TRUE, usedIngredients |-> <<>>, missingIngredients |-> <<>>],
     [title |-> "F", lists |-> TRUE, usedIngredients |-> <<Milk, Eggs>>, missingIngredients |-> <<Cheese>>],
     [title |-> "G", lists |-> FALSE, usedIngredients |-> <<>>, missingIngredients |-> <<>>]}

SeqsUpTo(S, n) == UNION {[1..k -> S] : k \in 0..n}

\* What model.generateContent and JSON.parse of its cleaned text come to:
\* the call rejects ("error"), the text is no JSON ("garbage"), it is JSON but
\* no array ("object"), or it is an array of elements.
GenOutputs ==
    {[kind |-> k, items |-> <<>>] : k \in {"error", "garbage", "object"}}
    \cup {[kind |-> "array", items |-> s] : s \in SeqsUpTo(Candidates, MaxRecipes)}

matchPercentage_noCookbook(recipe, hasIngredients) ==
    LET totalIngredients == Len(recipe.usedIngredients) + Len(recipe.missingIngredients)
    IN  IF totalIngredients = 0 THEN NaN
        ELSE MathRoundDiv(Len(recipe.usedIngredients) * 100, totalIngredients)

matchPercentage_floor(recipe, hasIngredients) ==
    LET totalIngredients == Len(recipe.usedIngredients) + Len(recipe.missingIngredients)
    IN  IF hasIngredients
        THEN IF totalIngredients = 0 THEN NaN
             ELSE (Len(recipe.usedIngredients) * 100) \div totalIngredients
        ELSE 0

\* hasIngredients ? Math.round((used.length / totalIngredients) * 100) : 0
\* (0 / 0 is NaN and Math.round(NaN) is NaN; for the list lengths of the model
\* the floating-point quotient rounds as the exact one does)
matchPercentage(recipe, hasIngredients) ==
    LET totalIngredients == Len(recipe.usedIngredients) + Len(recipe.missingIngredients)
    IN  IF hasIngredients
        THEN IF totalIngredients = 0 THEN NaN
             ELSE MathRoundDiv(Len(recipe.usedIngredients) * 100, totalIngredients)
        ELSE 0

\* The older copy of the service scores without a cookbook mode.
matchPercentageV1(recipe) ==
    LET totalIngredients == Len(recipe.usedIngredients) + Len(recipe.missingIngredients)
    IN  IF totalIngredients = 0 THEN NaN
        ELSE MathRoundDiv(Len(recipe.usedIngredients) * 100, totalIngredients)

\* The object parsed.map builds for element i; uuidv4() is a fresh id, here
\* the element's position in the generator's array.
ScoreRecipe(recipe, i, hasIngredients) ==
    [id |-> i, title |-> recipe.title,
     usedIngredients |-> recipe.usedIngredients,
     missingIngredients |-> recipe.missingIngredients,
     matchPercentage |-> matchPercentage(recipe, hasIngredients)]

\* (a, b) => b.matchPercentage - a.matchPercentage; sort reads a NaN result as +0
CompareFn(a, b) ==
    IF a.matchPercentage = NaN \/ b.matchPercentage = NaN THEN 0
    ELSE b.matchPercentage - a.matchPercentage

\* Array.prototype.sort orders by the comparator only when it is consistent:
\* elements that compare equal to a common element compare equal.
ConsistentComparator(s) ==
    \A i, j, k \in 1..Len(s) :
        (CompareFn(s[i], s[j]) = 0 /\ CompareFn(s[j], s[k]) = 0) => CompareFn(s[i], s[k]) = 0

RECURSIVE InsertRecipe(_, _)
InsertRecipe(s, x) ==
    IF s = <<>> THEN <<x>>
    ELSE IF CompareFn(s[Len(s)], x) > 0
         THEN Append(InsertRecipe(SubSeq(s, 1, Len(s) - 1), x), s[Len(s)])
    ELSE Append(s, x)

RECURSIVE SortRecipes(_)
\* the stable sort under a consistent comparator
SortRecipes(s) ==
    IF s = <<>> THEN <<>>
    ELSE InsertRecipe(SortRecipes(SubSeq(s, 1, Len(s) - 1)), s[Len(s)])

Reorderings(s) ==
    {[i \in 1..Len(s) |-> s[f[i]]] :
        f \in {g \in [1..Len(s) -> 1..Len(s)] : \A a, b \in 1..Len(s) : g[a] = g[b] => a = b}}

\* The outcomes of .sort(compareFn): the stable sort when the comparator is
\* consistent, an implementation-defined order of the elements otherwise.
SortOutcomes(s) ==
    IF ConsistentComparator(s) THEN {SortRecipes(s)} ELSE Reorderings(s)

Thrown == [ok |-> FALSE, error |-> "Failed to generate recipes with AI", recipes |-> <<>>]

\* The results generateRecipeSuggestions(ingredientList) can come to on the
\* generator output gen: parsed.map(...) throws on the first element without
\* lists (reading .length of undefined), and every throw of the try block
\* becomes the one rethrown Error.
generateRecipeSuggestions(ingredientList, gen) ==
    LET hasIngredients == Len(ingredientList) > 0
    IN  IF gen.kind # "array" THEN {Thrown}
        ELSE IF \E i \in 1..Len(gen.items) : ~gen.items[i].lists THEN {Thrown}
        ELSE {[ok |-> TRUE, error |-> "", recipes |-> r] :
                 r \in SortOutcomes([i \in 1..Len(gen.items) |->
                                        ScoreRecipe(gen.items[i], i, hasIngredients)])}

-----------------------------------------------------------------------------
(* routes/recipes: POST and GET /api/recipes/suggest *)

\* res.json: JSON.stringify writes a NaN number as null
JsonNumber(x) == IF x = NaN THEN Null ELSE x

JsonRecipes(recipes) ==
    [i \in 1..Len(recipes) |->
        [recipes[i] EXCEPT !.matchPercentage = JsonNumber(recipes[i].matchPercentage)]]

\* The Ingredient the client sends in a request body
MilkItem ==
    [id |-> 1, name |-> Milk, category |-> "Dairy", quantity |-> "1",
     expiryDate |-> <<2024, 6, 12>>]

\* req.body of POST /suggest: ingredients absent or [] (both take the
\* inventory branch) or a list; dietary only words the prompt
SuggestBodies == {[ingredients |-> <<>>], [ingredients |-> <<MilkItem>>]}

\* What the store of the recipe specifications is filled with
SuggestAddBodies ==
    {[name |-> Milk, category |-> "Dairy", quantity |-> "1", expiryDate |-> <<2024, 6, 12>>]}

\* The envelope the route writes for a result of generateRecipeSuggestions
SuggestEnvelope(route, u, result) ==
    IF result.ok
    THEN [route |-> route, user |-> u, status |-> 200, success |-> TRUE,
          data |-> JsonRecipes(result.recipes)]
    ELSE [route |-> route, user |-> u, status |-> 500, success |-> FALSE,
          error |-> result.error]

\* The ingredient list POST /suggest hands to the service
PostSuggestIngredients(rows, u, body) ==
    IF body.ingredients = <<>> THEN GetInventory(rows, u) ELSE body.ingredients

SuggestPost(u, body, gen) ==
    /\ Idle
    /\ LET list == PostSuggestIngredients(ingredients, u, body)
       IN  \E result \in generateRecipeSuggestions(list, gen) :
               /\ gemini' = [called |-> TRUE, ingredients |-> list, output |-> gen,
                             result |-> result]
               /\ res' = SuggestEnvelope("POST /suggest", u, result)
    /\ req' = [route |-> "POST /suggest", user |-> u, body |-> body]
    /\ rendered' = NoRender
    /\ UNCHANGED <<now, ingredients, nextId>>

SuggestGet(u, gen) ==
    /\ Idle
    /\ req' = [route |-> "GET /suggest", user |-> u, body |-> [ingredients |-> <<>>]]
    /\ rendered' = NoRender
    /\ UNCHANGED <<now, ingredients, nextId>>
    /\ LET list == GetInventory(ingredients, u)
       IN  IF Len(list) = 0
           THEN /\ gemini' = NoCall
                /\ res' = [route |-> "GET /suggest", user |-> u, status |-> 400,
                           success |-> FALSE,
                           error |-> "No ingredients in inventory. Add items first."]
           ELSE \E result \in generateRecipeSuggestions(list, gen) :
                    /\ gemini' = [called |-> TRUE, ingredients |-> list, output |-> gen,
                                  result |-> result]
                    /\ res' = SuggestEnvelope("GET /suggest", u, result)

\* The store of the recipe specifications holds at most this many rows.
MaxSuggestRows == 1

NextSuggest ==
    \/ Idle /\ nextId <= MaxSuggestRows /\ UNCHANGED <<client, notify, usageStats, receipts, push, accounts, scanner>>
            /\ \E u \in Users, body \in SuggestAddBodies : AddItem(u, body)
    \/ Idle /\ UNCHANGED <<client, notify, usageStats, receipts, push, accounts, scanner>>
            /\ \E u \in Users, body \in SuggestBodies, gen \in GenOutputs :
                   SuggestPost(u, body, gen)
    \/ Idle /\ UNCHANGED <<client, notify, usageStats, receipts, push, accounts, scanner>>
            /\ \E u \in Users, gen \in GenOutputs : SuggestGet(u, gen)
    \/ Respond /\ UNCHANGED <<client, preferences, usageStats, receipts, push, accounts, scanner>>

SpecSuggest == Init /\ [][NextSuggest]_vars

-----------------------------------------------------------------------------
(* RecipeView: getFallbackRecipes *)

UpperCase ==
    <<"A", "B", "C", "D", "E", "F", "G", "H", "I", "J", "K", "L", "M",
      "N", "O", "P", "Q", "R", "S", "T", "U", "V", "W", "X", "Y", "Z">>
LowerCase ==
    <<"a", "b", "c", "d", "e", "f", "g", "h", "i", "j", "k", "l", "m",
      "n", "o", "p", "q", "r", "s", "t", "u", "v", "w", "x", "y", "z">>

\* String.prototype.toLowerCase over the letters of the model
toLowerCase(s) ==
    [i \in 1..Len(s) |->
        IF \E k \in 1..Len(UpperCase) : UpperCase[k] = s[i]
        THEN LowerCase[CHOOSE k \in 1..Len(UpperCase) : UpperCase[k] = s[i]]
        ELSE s[i]]

\* s.split(' ')[0]: the characters in front of the first space
FirstWord(s) ==
    IF \E i \in 1..Len(s) : s[i] = " "
    THEN SubSeq(s, 1, (CHOOSE i \in 1..Len(s) :
                          s[i] = " " /\ \A j \in 1..(i - 1) : s[j] # " ") - 1)
    ELSE s

RECURSIVE IndexOfFrom(_, _, _)
\* s.indexOf(sub, from - 1) + 1: the first position at or after from where
\* sub begins in s, 0 when there is none
IndexOfFrom(s, sub, from) ==
    IF from + Len(sub) - 1 > Len(s) THEN 0
    ELSE IF SubSeq(s, from, from + Len(sub) - 1) = sub THEN from
    ELSE IndexOfFrom(s, sub, from + 1)

\* String.prototype.includes
Includes(s, sub) == IndexOfFrom(s, sub, 1) > 0

RECURSIVE Filter(_, _)
\* Array.prototype.filter with the elements that pass given as a set
Filter(s, keep) ==
    IF s = <<>> THEN <<>>
    ELSE LET rest == Filter(SubSeq(s, 1, Len(s) - 1), keep)
         IN  IF s[Len(s)] \in keep THEN Append(rest, s[Len(s)]) ELSE rest

Available_exact(recipe, inv) ==
    Filter(recipe.usedIngredients,
           {r \in {recipe.usedIngredients[k] : k \in 1..Len(recipe.usedIngredients)} :
               \E i \in 1..Len(inv) : inv[i].name = r})

\* recipe.usedIngredients.filter(req => inv.some(item =>
\*     item.name.toLowerCase().includes(req.toLowerCase().split(' ')[0])))
Available(recipe, inv) ==
    Filter(recipe.usedIngredients,
           {r \in {recipe.usedIngredients[k] : k \in 1..Len(recipe.usedIngredients)} :
               \E i \in 1..Len(inv) :
                   Includes(toLowerCase(inv[i].name), FirstWord(toLowerCase(r)))})

\* The static catalogue; ids 'r1' .. 'r4' are written by their number
allRecipes ==
    <<[id |-> 1, title |-> "Creamy Chicken Spinach Pasta",
       usedIngredients |-> <<<<"C", "h", "i", "c", "k", "e", "n", " ", "B", "r", "e", "a", "s", "t">>,
                             <<"S", "p", "i", "n", "a", "c", "h">>,
                             <<"P", "a", "r", "m", "e", "s", "a", "n">>>>,
       missingIngredients |-> <<<<"P", "a", "s", "t", "a">>, <<"H", "e", "a", "v", "y", " ", "C", "r", "e", "a", "m">>>>,
       matchPercentage |-> 0],
      [id |-> 2, title |-> "Classic Eggs Benedict",
       usedIngredients |-> <<Eggs>>,
       missingIngredients |-> <<<<"E", "n", "g", "l", "i", "s", "h", " ", "M", "u", "f", "f", "i", "n">>,
                                <<"H", "a", "m">>>>,
       matchPercentage |-> 0],
      [id |-> 3, title |-> "Greek Yogurt Parfait",
       usedIngredients |-> <<<<"G", "r", "e", "e", "k", " ", "Y", "o", "g", "u", "r", "t">>>>,
       missingIngredients |-> <<<<"G", "r", "a", "n", "o", "l", "a">>,
                                <<"B", "e", "r", "r", "i", "e", "s">>>>,
       matchPercentage |-> 0],
      [id |-> 4, title |-> "Tomato Basil Soup",
       usedIngredients |-> <<<<"T", "o", "m", "a", "t", "o", " ", "S", "a", "u", "c", "e">>>>,
       missingIngredients |-> <<<<"B", "a", "s", "i", "l">>, <<"C", "r", "e", "a", "m">>>>,
       matchPercentage |-> 0]>>

\* Math.round((available.length / (available.length + missing.length)) * 100)
FallbackPercentage(recipe, inv) ==
    LET available == Available(recipe, inv)
        total == Len(available) + Len(recipe.missingIngredients)
    IN  IF total = 0 THEN NaN ELSE MathRoundDiv(Len(available) * 100, total)

\* catalogue.map(...).sort(...): every catalogue recipe with its percentage,
\* by descending percentage. (No recipe of the catalogues of the model has
\* empty missingIngredients, so no percentage is NaN and the comparator is
\* consistent.)
FallbackMatch(catalogue, inv) ==
    SortRecipes([i \in 1..Len(catalogue) |->
                    [catalogue[i] EXCEPT !.matchPercentage = FallbackPercentage(catalogue[i], inv)]])

getFallbackRecipes(inv) == FallbackMatch(allRecipes, inv)

-----------------------------------------------------------------------------
(* MainApp and RecipeView *)

MaxInflight == 2

\* The user who is logged in at the browser
Viewer == "u1"

Chicken == <<"c", "h", "i", "c", "k", "e", "n">>

\* The items the viewer's store is filled with, each once and before the
\* page is loaded
ViewAddBodies ==
    [name : {Milk, Eggs, Chicken}, category : {"Dairy"}, quantity : {"1"},
     expiryDate : {<<2024, 6, 12>>}]

\* What is typed into the search box
Queries == {<<>>, <<"M">>}

\* What the generator answers a request of the RecipeView with
ViewGenOutputs ==
    {[kind |-> k, items |-> <<>>] : k \in {"error", "garbage", "object"}}
    \cup {[kind |-> "array", items |-> <<c>>] : c \in {c \in Candidates : c.title = "C"}}
    \cup {[kind |-> "array", items |-> <<c, d>>] :
             c \in {c \in Candidates : c.title = "A"}, d \in {d \in Candidates : d.title = "G"}}

\* searchQuery ? inventory.filter(item =>
\*     item.name.toLowerCase().includes(searchQuery.toLowerCase())) : inventory
filteredInventory(app) ==
    IF app.searchQuery = <<>> THEN app.inventory
    ELSE Filter(app.inventory,
                {item \in {app.inventory[k] : k \in 1..Len(app.inventory)} :
                    Includes(toLowerCase(item.name), toLowerCase(app.searchQuery))})

\* fetchRecipes up to its await: the request leaves with the inventory of the
\* render it was created in, which is also the one its catch block reads
fetchRecipes(view, inv) ==
    /\ Len(inflight) < MaxInflight
    /\ recipeView' = [view EXCEPT !.loading = TRUE, !.error = ""]
    /\ inflight' = Append(inflight, [inventory |-> inv, response |-> NoRes])
    /\ rendered' = NoRender

\* useEffect(..., [backendConnected, inventory]) of a RecipeView in the state
\* view that is rendered with the props of app
RecipeEffect(view, app) ==
    LET inv == filteredInventory(app)
    IN  IF app.backendStatus = "connected" /\ Len(inv) > 0
        THEN fetchRecipes(view, inv)
        ELSE /\ recipeView' = [view EXCEPT !.recipes = getFallbackRecipes(inv)]
             /\ rendered' = [view |-> "recipes", outcome |-> "effect",
                             request |-> [inventory |-> inv, response |-> NoRes]]
             /\ UNCHANGED inflight

\* loadData with the backend up: health check, then getInventory
LoadDataView ==
    /\ mainApp.backendStatus = "checking"
    /\ LoadData(Viewer)
    /\ mainApp' = [mainApp EXCEPT !.backendStatus = "connected",
                                  !.inventory = rendered'.inventory]
    /\ UNCHANGED <<recipeView, inflight>>

\* loadData with the backend down: checkHealth rejects
LoadDataFails ==
    /\ Idle
    /\ mainApp.backendStatus = "checking"
    /\ mainApp' = [mainApp EXCEPT !.backendStatus = "disconnected"]
    /\ UNCHANGED <<now, ingredients, nextId, res, rendered, req, gemini, recipeView, inflight>>

\* A click on a NavItem. Leaving the recipes tab unmounts the RecipeView: its
\* state is dropped and the requests it has in flight settle into nothing.
setActiveTab(tab) ==
    /\ Idle
    /\ mainApp.backendStatus # "checking"
    /\ tab # mainApp.activeTab
    /\ mainApp' = [mainApp EXCEPT !.activeTab = tab]
    /\ IF tab = "recipes"
       THEN RecipeEffect(Unmounted, mainApp')
       ELSE /\ recipeView' = Unmounted
            /\ inflight' = <<>>
            /\ rendered' = NoRender
    /\ UNCHANGED <<now, ingredients, nextId, res, req, gemini>>

\* Typing in the search box: MainApp renders again, and a mounted RecipeView
\* gets a new inventory array, which runs its effect
setSearchQuery(q) ==
    /\ Idle
    /\ mainApp.backendStatus # "checking"
    /\ q # mainApp.searchQuery
    /\ mainApp' = [mainApp EXCEPT !.searchQuery = q]
    /\ IF mainApp.activeTab = "recipes"
       THEN RecipeEffect(recipeView, mainApp')
       ELSE UNCHANGED <<recipeView, inflight, rendered>>
    /\ UNCHANGED <<now, ingredients, nextId, res, req, gemini>>

\* The Refresh button, which is rendered when the backend is connected and
\* the view is not loading
Refresh ==
    /\ Idle
    /\ mainApp.activeTab = "recipes"
    /\ mainApp.backendStatus = "connected"
    /\ ~recipeView.loading
    /\ fetchRecipes(recipeView, filteredInventory(mainApp))
    /\ UNCHANGED <<now, ingredients, nextId, res, req, gemini, mainApp>>

\* The server handles request i: api.getRecipeSuggestions POSTs a non-empty
\* inventory and GETs otherwise
ServeSuggest(i, gen) ==
    /\ inflight[i].response = NoRes
    /\ IF Len(inflight[i].inventory) > 0
       THEN SuggestPost(Viewer, [ingredients |-> inflight[i].inventory], gen)
       ELSE SuggestGet(Viewer, gen)
    /\ inflight' = [inflight EXCEPT ![i].response = res']
    /\ UNCHANGED <<mainApp, recipeView>>

\* The promise of request i settles: apiRequest throws unless the response
\* is ok and a success, and fetchRecipes goes on after its await
ReceiveSuggest(i) ==
    /\ Idle
    /\ inflight[i].response # NoRes
    /\ LET r == inflight[i]
       IN  /\ IF r.response.success
              THEN recipeView' = [recipeView EXCEPT !.recipes = r.response.data,
                                                    !.loading = FALSE]
              ELSE recipeView' = [recipes |-> getFallbackRecipes(r.inventory),
                                  loading |-> FALSE,
                                  error |-> "Failed to fetch AI recipes."]
           /\ rendered' = [view |-> "recipes",
                           outcome |-> IF r.response.success THEN "then" ELSE "catch",
                           request |-> r]
    /\ inflight' = [k \in 1..(Len(inflight) - 1) |->
                       IF k < i THEN inflight[k] ELSE inflight[k + 1]]
    /\ UNCHANGED <<now, ingredients, nextId, res, req, gemini, mainApp>>

NextView ==
    \/ Idle /\ mainApp.backendStatus = "checking" /\ UNCHANGED <<client, notify, usageStats, receipts, push, accounts, scanner>>
            /\ \E body \in ViewAddBodies :
                   /\ \A r \in ingredients : r.name # body.name
                   /\ AddItem(Viewer, body)
    \/ LoadDataView /\ UNCHANGED <<notify, usageStats, receipts, push, accounts, scanner>>
    \/ LoadDataFails /\ UNCHANGED <<notify, usageStats, receipts, push, accounts, scanner>>
    \/ UNCHANGED <<notify, usageStats, receipts, push, accounts, scanner>> /\ \E tab \in {"dashboard", "recipes"} : setActiveTab(tab)
    \/ UNCHANGED <<notify, usageStats, receipts, push, accounts, scanner>> /\ \E q \in Queries : setSearchQuery(q)
    \/ Refresh /\ UNCHANGED <<notify, usageStats, receipts, push, accounts, scanner>>
    \/ Idle /\ UNCHANGED <<notify, usageStats, receipts, push, accounts, scanner>>
            /\ \E i \in 1..Len(inflight), gen \in ViewGenOutputs : ServeSuggest(i, gen)
    \/ UNCHANGED <<notify, usageStats, receipts, push, accounts, scanner>> /\ \E i \in 1..Len(inflight) : ReceiveSuggest(i)
    \/ Respond /\ UNCHANGED <<client, preferences, usageStats, receipts, push, accounts, scanner>>

SpecView == Init /\ [][NextView]_vars

-----------------------------------------------------------------------------
(* Properties of the recipe service and its routes *)

\* The service was called and returned a list
Returned == gemini.called /\ gemini.result.ok

\* x is round(100 * u / t) for t > 0: the integer within one half of the
\* quotient, the upper one at a tie
IsRoundedPercent(x, u, t) ==
    /\ 2 * x * t - t <= 200 * u
    /\ 200 * u < 2 * x * t + t

\* C5: with a non-empty ingredient list, every returned recipe that names at
\* least one ingredient has an integer matchPercentage between 0 and 100 that
\* is round(100 * |used| / (|used| + |missing|)), 100 when nothing is missing
\* and 0 when nothing is used; the response carries the same number, and the
\* older copy of the service scores the same.
C5_GroundedScore ==
    (Returned /\ gemini.ingredients # <<>>) =>
        \A i \in 1..Len(gemini.result.recipes) :
            LET r == gemini.result.recipes[i]
                u == Len(r.usedIngredients)
                m == Len(r.missingIngredients)
            IN  u + m > 0 =>
                    /\ r.matchPercentage \in 0..100
                    /\ IsRoundedPercent(r.matchPercentage, u, u + m)
                    /\ (m = 0 => r.matchPercentage = 100)
                    /\ (u = 0 => r.matchPercentage = 0)
                    /\ res.data[i].matchPercentage = r.matchPercentage
                    /\ matchPercentageV1(r) = r.matchPercentage

\* A grounded answer with a full match, a rounded two thirds and no match
C5_Witness ==
    /\ Returned
    /\ gemini.ingredients # <<>>
    /\ Len(gemini.result.recipes) = 3
    /\ gemini.result.recipes[1].matchPercentage = 100
    /\ gemini.result.recipes[2].matchPercentage = 67
    /\ Len(gemini.result.recipes[2].usedIngredients) = 2
    /\ gemini.result.recipes[3].matchPercentage = 0
    /\ Len(gemini.result.recipes[3].missingIngredients) = 1

\* C6: with a non-empty ingredient list, a returned recipe whose
\* usedIngredients and missingIngredients are both empty has matchPercentage 0,
\* and the response carries a number between 0 and 100 for it.
C6_BothEmptyScoresZero ==
    (Returned /\ gemini.ingredients # <<>>) =>
        \A i \in 1..Len(gemini.result.recipes) :
            LET r == gemini.result.recipes[i]
            IN  (r.usedIngredients = <<>> /\ r.missingIngredients = <<>>) =>
                    /\ r.matchPercentage = 0
                    /\ res.data[i].matchPercentage \in 0..100

\* C7: when the service is called with an empty ingredient list every recipe
\* it returns, and every recipe of the response, has matchPercentage 0; POST
\* /suggest calls it with an empty list exactly when the body carries no
\* ingredients and the requester has no rows, and GET /suggest never does.
C7_CookbookScoresZero ==
    /\ (Returned /\ gemini.ingredients = <<>>) =>
           \A i \in 1..Len(gemini.result.recipes) :
               /\ gemini.result.recipes[i].matchPercentage = 0
               /\ res.data[i].matchPercentage = 0
    /\ (gemini.called /\ req.route = "POST /suggest") =>
           (gemini.ingredients = <<>>
                <=> (req.body.ingredients = <<>> /\ UserRows(ingredients, req.user) = {}))
    /\ (gemini.called /\ req.route = "GET /suggest") => gemini.ingredients # <<>>

\* A cookbook answer to POST /suggest holding a recipe that uses ingredients
\* and misses none
C7_Witness ==
    /\ Returned
    /\ req.route = "POST /suggest"
    /\ gemini.ingredients = <<>>
    /\ \E i \in 1..Len(gemini.result.recipes) :
           /\ gemini.result.recipes[i].usedIngredients # <<>>
           /\ gemini.result.recipes[i].missingIngredients = <<>>
           /\ res.data[i].matchPercentage = 0

\* C8: in a returned list no recipe comes before one with a greater
\* matchPercentage, and recipes with equal matchPercentage are in the order
\* of the generator's array (ids are positions in that array). Recipes whose
\* matchPercentage is no number are left out of the comparison.
C8_SortedDescendingStable ==
    Returned =>
        \A i, j \in 1..Len(gemini.result.recipes) :
            LET a == gemini.result.recipes[i]
                b == gemini.result.recipes[j]
            IN  (i < j /\ a.matchPercentage # NaN /\ b.matchPercentage # NaN) =>
                    /\ a.matchPercentage >= b.matchPercentage
                    /\ (a.matchPercentage = b.matchPercentage => a.id < b.id)

-----------------------------------------------------------------------------
(* Properties of the RecipeView *)

\* sub occurs in s as a run of consecutive characters
IsSubstring(sub, s) ==
    \E i \in 0..(Len(s) - Len(sub)) : \A j \in 1..Len(sub) : s[i + j] = sub[j]

\* w is what stands in s in front of its first space (all of s without one)
IsFirstWord(w, s) ==
    \E n \in 0..Len(s) :
        /\ w = SubSeq(s, 1, n)
        /\ \A j \in 1..n : s[j] # " "
        /\ (n = Len(s) \/ s[n + 1] = " ")

\* The used ingredients whose lower-cased first word is a substring of some
\* lower-cased item name
Matched(used, inv) ==
    {r \in {used[k] : k \in 1..Len(used)} :
        \E i \in 1..Len(inv), w \in {SubSeq(toLowerCase(r), 1, n) : n \in 0..Len(r)} :
            /\ IsFirstWord(w, toLowerCase(r))
            /\ IsSubstring(w, toLowerCase(inv[i].name))}

\* The recipe of the scenario
ScenarioRecipe ==
    [id |-> 1, title |-> "Scenario", usedIngredients |-> <<Milk, Cheese>>,
     missingIngredients |-> <<Cheese>>, matchPercentage |-> 0]

\* The view has just painted the fallback recipes for rendered.request.inventory
FallbackPainted ==
    rendered.view = "recipes" /\ rendered.outcome \in {"catch", "effect"}

\* C9: when the RecipeView shows fallback recipes for an inventory, it shows
\* every recipe of the static catalogue, the available ingredients of each are
\* its usedIngredients whose lower-cased first word is a substring of some
\* lower-cased item name, in their order, and its matchPercentage is
\* round(100 * |available| / (|available| + |missingIngredients|)); for the
\* inventory [Milk, Eggs] a recipe using [Milk, Cheese] and missing [Cheese]
\* has available [Milk] and matchPercentage 50.
C9_FallbackMatcher ==
    FallbackPainted =>
        LET inv == rendered.request.inventory
        IN  /\ {recipeView.recipes[i].id : i \in 1..Len(recipeView.recipes)}
                   = 1..Len(allRecipes)
            /\ Len(recipeView.recipes) = Len(allRecipes)
            /\ \A i \in 1..Len(recipeView.recipes) :
                   LET shown == recipeView.recipes[i]
                       c == allRecipes[shown.id]
                       a == Cardinality(Matched(c.usedIngredients, inv))
                   IN  /\ Available(c, inv) = Filter(c.usedIngredients,
                                                     Matched(c.usedIngredients, inv))
                       /\ IsRoundedPercent(shown.matchPercentage, a,
                                           a + Len(c.missingIngredients))
                       /\ shown = [c EXCEPT !.matchPercentage = shown.matchPercentage]
            /\ [i \in 1..Len(inv) |-> inv[i].name] = <<Milk, Eggs>> =>
                   /\ Available(ScenarioRecipe, inv) = <<Milk>>
                   /\ FallbackMatch(<<ScenarioRecipe>>, inv)
                          = <<[ScenarioRecipe EXCEPT !.matchPercentage = 50]>>

\* A failed request for the inventory [Milk, Eggs]: the egg recipe leads with
\* one of three ingredients
C9_Witness ==
    /\ rendered.view = "recipes"
    /\ rendered.outcome = "catch"
    /\ [i \in 1..Len(rendered.request.inventory) |-> rendered.request.inventory[i].name]
           = <<Milk, Eggs>>
    /\ recipeView.recipes[1].id = 2
    /\ recipeView.recipes[1].matchPercentage = 33
    /\ recipeView.recipes[2].matchPercentage = 0

\* The generator call rejected, or its output is no JSON, no array, or an
\* array with an element without ingredient lists
Malformed(gen) ==
    gen.kind # "array" \/ \E i \in 1..Len(gen.items) : ~gen.items[i].lists

\* C10: on a failed generator call or malformed output the service throws
\* and returns no recipe, the route answers with the 500 error envelope, and
\* the RecipeView that receives this answer shows exactly the fallback
\* recipes of the inventory it is rendered with at that moment.
C10_FailureDisplaysFallback ==
    /\ (gemini.called /\ Malformed(gemini.output)) =>
           /\ gemini.result = Thrown
           /\ res.status = 500
           /\ res.success = FALSE
           /\ res.error = "Failed to generate recipes with AI"
    /\ (rendered.view = "recipes" /\ rendered.outcome = "catch"
            /\ rendered.request.response.status = 500) =>
           recipeView.recipes = getFallbackRecipes(filteredInventory(mainApp))

-----------------------------------------------------------------------------
(* routes/notifications: PUT /preferences; services/notifications:
   sendExpiryNotifications *)

\* A field the request body leaves out
Undefined == -3

\* What db.prepare(...).run does with a parameter that is undefined: the
\* driver binds NULL, or refuses the value with a TypeError
UndefinedBinds == {"null", "throw"}

\* req.body of PUT /preferences with every field present, as a JSON number
\* or string
PrefBodies ==
    [expiryDaysBefore : {0, 1, 3}, dailySummary : {1}, notifyTime : {"09:00"},
     enabled : {0, 1}]

\* x ?? d over the values of the model
Nullish(x, d) == IF x = Undefined \/ x = Null THEN d ELSE x

\* x ? 1 : 0 for a number or a missing value
OneIfTruthy(x) == IF x = Undefined \/ x = Null \/ x = 0 THEN 0 ELSE 1

\* The parameters expiryDaysBefore and notifyTime are bound as they came
UndefinedPref(body) == body.expiryDaysBefore = Undefined \/ body.notifyTime = ""

\* INSERT ... VALUES (?, expiryDaysBefore ?? 3, dailySummary ?? 1,
\*                    notifyTime ?? '09:00', enabled ?? 1)
\* ON CONFLICT(user_id) DO UPDATE SET
\*   expiry_days_before = COALESCE(expiryDaysBefore, expiry_days_before),
\*   daily_summary = COALESCE(dailySummary ? 1 : 0, daily_summary),
\*   notify_time = COALESCE(notifyTime, notify_time),
\*   enabled = COALESCE(enabled ? 1 : 0, enabled)
\* with a notifyTime that is left out written ""
UpsertPreferences(pref, body) ==
    IF pref = NoPref
    THEN [row |-> TRUE,
          expiry_days_before |-> Nullish(body.expiryDaysBefore, 3),
          daily_summary |-> Nullish(body.dailySummary, 1),
          notify_time |-> IF body.notifyTime = "" THEN "09:00" ELSE body.notifyTime,
          enabled |-> Nullish(body.enabled, 1)]
    ELSE [row |-> TRUE,
          expiry_days_before |-> Nullish(body.expiryDaysBefore, pref.expiry_days_before),
          daily_summary |-> OneIfTruthy(body.dailySummary),
          notify_time |-> IF body.notifyTime = "" THEN pref.notify_time ELSE body.notifyTime,
          enabled |-> OneIfTruthy(body.enabled)]

\* The answer of PUT /preferences for the row it reads back
PreferencesEnvelope(u, pref) ==
    [route |-> "PUT /preferences", user |-> u, status |-> 200, success |-> TRUE,
     data |-> [expiryDaysBefore |-> pref.expiry_days_before,
               dailySummary |-> pref.daily_summary,
               notifyTime |-> pref.notify_time,
               enabled |-> pref.enabled]]

\* PUT /api/notifications/preferences
PutPreferences(u, body, binds) ==
    /\ Idle
    /\ req' = [route |-> "PUT /preferences", user |-> u, body |-> body]
    /\ IF UndefinedPref(body) /\ binds = "throw"
       THEN /\ UNCHANGED preferences
            /\ res' = [route |-> "PUT /preferences", user |-> u, status |-> 500,
                       success |-> FALSE, error |-> "Failed to update preferences"]
       ELSE /\ preferences' = [preferences EXCEPT
                                  ![u] = UpsertPreferences(preferences[u], body)]
            /\ res' = PreferencesEnvelope(u, preferences'[u])
    /\ UNCHANGED <<now, ingredients, nextId, rendered, gemini, pushed>>

\* SELECT ... FROM users u LEFT JOIN notification_preferences np ...
\* WHERE np.enabled = 1 OR np.enabled IS NULL
NotifiedUsers(prefs) == {u \in Users : prefs[u] = NoPref \/ prefs[u].enabled = 1}

\* user.expiry_days_before || 3: NULL (no row) and 0 are both falsy
daysBefore(pref) ==
    IF pref = NoPref \/ pref.expiry_days_before = 0 THEN 3 ELSE pref.expiry_days_before

\* date('now'), and futureDate.toISOString().split('T')[0] after
\* setDate(getDate() + daysBefore), as days since the epoch (the server's
\* clock is UTC)
DateNow(t) == t \div DayLen
FutureDate(t, days) == (t + days * DayLen) \div DayLen

\* WHERE user_id = ? AND expiry_date <= ? AND expiry_date >= date('now')
\* (ISO date strings compare as their dates)
ExpiringItems(rows, u, t, days) ==
    {r \in UserRows(rows, u) :
        /\ DaysFromCivil(r.expiry_date) <= FutureDate(t, days)
        /\ DaysFromCivil(r.expiry_date) >= DateNow(t)}

\* What one pass of the loop over the selected users comes to for user u
NotifyUser(rows, prefs, u, t) ==
    [userId |-> u, daysBefore |-> daysBefore(prefs[u]),
     expiringItems |-> ExpiringItems(rows, u, t, daysBefore(prefs[u]))]

\* The payload handed to sendNotificationToUser
ExpiryPayload(pass) ==
    [userId |-> pass.userId, title |-> "Items Expiring Soon!", tag |-> "expiry-reminder",
     daysBefore |-> pass.daysBefore,
     itemCount |-> Cardinality(pass.expiringItems)]

\* The stores these runs go over hold no push subscription, so that the
\* sendNotificationToUser call of a pass has nothing to deliver to.
sendExpiryNotifications ==
    /\ Idle
    /\ LET passes == {NotifyUser(ingredients, preferences, u, now) :
                         u \in NotifiedUsers(preferences)}
       IN  pushed' = [ran |-> TRUE, passes |-> passes,
                      sent |-> {ExpiryPayload(pass) :
                                   pass \in {q \in passes : Cardinality(q.expiringItems) > 0}}]
    /\ UNCHANGED <<now, ingredients, nextId, res, rendered, req, gemini, preferences>>

\* The items the stores of the notification runs are filled with
NotifyAddBodies ==
    [name : {Milk}, category : {"Dairy"}, quantity : {"1"},
     expiryDate : {<<2024, 6, 10>>, <<2024, 6, 11>>, <<2024, 6, 13>>, <<2024, 6, 14>>}]

\* The stores of the notification runs hold at most this many rows.
MaxNotifyRows == 1

NextNotify ==
    \/ Idle /\ nextId <= MaxNotifyRows /\ UNCHANGED <<client, notify, usageStats, receipts, push, accounts, scanner>>
            /\ \E u \in Users, body \in NotifyAddBodies : AddItem(u, body)
    \/ Idle /\ UNCHANGED client
            /\ UNCHANGED <<usageStats, receipts, push, accounts, scanner>>
            /\ \E u \in Users, body \in PrefBodies, binds \in UndefinedBinds :
                   PutPreferences(u, body, binds)
    \/ Tick /\ UNCHANGED <<client, notify, usageStats, receipts, push, accounts, scanner>>
    \/ sendExpiryNotifications /\ UNCHANGED <<client, usageStats, receipts, push, accounts, scanner>>
    \/ Respond /\ UNCHANGED <<client, preferences, usageStats, receipts, push, accounts, scanner>>

SpecNotify == Init /\ [][NextNotify]_vars

\* the stored value of the window of user u: 3 stands for no value
Window(u) == IF preferences[u] = NoPref THEN 3 ELSE preferences[u].expiry_days_before

\* the rows of user u whose day count lies in the window
Qualifying(u) ==
    {r \in UserRows(ingredients, u) :
        /\ 0 <= DaysUntil(r.expiry_date, now)
        /\ DaysUntil(r.expiry_date, now) <= Window(u)}

\* C11: for every user a run of sendExpiryNotifications considers, the items
\* it counts as expiring are the user's rows with 0 <= days <= the stored
\* expiry_days_before, whatever the stored value (0 included), and the window
\* is 3 only for a user without a stored value.
C11_ExpiringWindow ==
    pushed.ran =>
        \A pass \in pushed.passes :
            /\ pass.expiringItems = Qualifying(pass.userId)
            /\ pass.daysBefore = Window(pass.userId)

\* C12: a run sends a notification for a user exactly when the user is
\* enabled (enabled = 1 or no row) and has a qualifying row, never for a user
\* with enabled = 0 or without qualifying rows, and itemCount is the number
\* of qualifying rows.
C12_SentIffEnabledAndQualifying ==
    pushed.ran =>
        /\ \A u \in Users :
               (\E n \in pushed.sent : n.userId = u)
                   <=> /\ preferences[u] = NoPref \/ preferences[u].enabled = 1
                       /\ Qualifying(u) # {}
        /\ \A n \in pushed.sent : n.itemCount = Cardinality(Qualifying(n.userId))

-----------------------------------------------------------------------------
(* GET /api/inventory/stats with rows in usage_stats *)

MaxUsageRows == 2
MaxStatsRows == 1

\* The rows of usage_stats. No code of the repository writes the table: its
\* rows come from outside. estimated_savings is a whole number, co2_saved is
\* counted in tenths of a kilogram; 0 is the default of both columns.
UsageRows ==
    {[user_id |-> u, month |-> m, estimated_savings |-> v[1], co2_saved |-> v[2]] :
        u \in Users, m \in {<<2024, 5>>, <<2024, 6>>},
        v \in {<<0, 0>>, <<12, 15>>, <<0, 23>>}}

\* A row is inserted into usage_stats from outside the repository.
UsageWritten(row) ==
    /\ Idle
    /\ Len(usageStats) < MaxUsageRows
    /\ usageStats' = Append(usageStats, row)
    /\ UNCHANGED <<now, ingredients, nextId, res, rendered, req, gemini>>

StatsAddBodies ==
    [name : {Milk}, category : {"Dairy"}, quantity : {"1"},
     expiryDate : {<<2024, 6, 9>>, <<2024, 6, 14>>}]

NextStats ==
    \/ Idle /\ nextId <= MaxStatsRows /\ UNCHANGED <<client, notify, usageStats, receipts, push, accounts, scanner>>
            /\ \E u \in Users, body \in StatsAddBodies : AddItem(u, body)
    \/ Idle /\ UNCHANGED <<client, notify, receipts, push, accounts, scanner>>
            /\ \E row \in UsageRows : UsageWritten(row)
    \/ Idle /\ UNCHANGED <<client, notify, usageStats, receipts, push, accounts, scanner>> /\ \E u \in Users : GetStats(u)
    \/ Respond /\ UNCHANGED <<client, preferences, usageStats, receipts, push, accounts, scanner>>

SpecStats == Init /\ [][NextStats]_vars

\* The usage_stats rows of the requester of the response for the month of now
OverrideRows ==
    {i \in 1..Len(usageStats) :
        /\ usageStats[i].user_id = res.user
        /\ usageStats[i].month = <<CivilFromDays(now \div DayLen)[1],
                                   CivilFromDays(now \div DayLen)[2]>>}

\* C13: when usage_stats holds a row for the requester and the current
\* month, the stats response reports that row's estimated_savings as
\* wasteSaved and its co2_saved as co2Reduced, whatever the two values are,
\* and its total, expired, expiring and fresh are those of the response
\* without any usage_stats row.
C13_OverrideTakesPrecedence ==
    (res.route = "GET /stats" /\ OverrideRows # {}) =>
        /\ \E i \in OverrideRows :
               /\ res.data.wasteSaved = <<"$", usageStats[i].estimated_savings>>
               /\ res.data.co2Reduced = <<usageStats[i].co2_saved \div 10, ".",
                                          usageStats[i].co2_saved % 10, "kg">>
        /\ LET live == StatsData(ingredients, <<>>, res.user, now)
           IN  /\ res.data.total = live.total
               /\ res.data.expired = live.expired
               /\ res.data.expiring = live.expiring
               /\ res.data.fresh = live.fresh

\* C14: with no usage_stats row, wasteSaved is round(3.5 * (total - expired))
\* and co2Reduced is round(0.8 * (total - expired)), in the stats response
\* (over its own total and expired) and in the dashboard (over the items it
\* shows and those of them it classifies as expired).
C14_EstimatesSkipExpired ==
    /\ (res.route = "GET /stats" /\ usageStats = <<>>) =>
           /\ res.data.wasteSaved
                  = <<"$", MathRoundDiv(7 * (res.data.total - res.data.expired), 2)>>
           /\ res.data.co2Reduced
                  = <<MathRoundDiv(8 * (res.data.total - res.data.expired), 10), "kg">>
    /\ (rendered.view = "inventory" /\ usageStats = <<>>) =>
           LET total == Len(rendered.inventory)
               expired == Cardinality({i \in 1..total :
                                          rendered.dashboard[i].status = "expired"})
           IN  /\ rendered.wasteSaved = <<"$", MathRoundDiv(7 * (total - expired), 2)>>
               /\ rendered.co2Reduced = <<MathRoundDiv(8 * (total - expired), 10), "kg">>

-----------------------------------------------------------------------------
(* POST /api/inventory/bulk, PUT /api/inventory/:id *)

MaxBulk == 2

InsertAccepted_noCheck(rows, id, item) ==
    /\ \A r \in rows : r.id # id
    /\ item.name # <<>>
    /\ item.category # ""
    /\ item.quantity # ""
    /\ item.expiryDate # <<>>
    /\ item.confidence # ""

\* CREATE TABLE ingredients: id is the PRIMARY KEY, every column is NOT NULL
\* and category carries CHECK(category IN (...)). An absent (undefined)
\* request field is <<>> for a name or a date, "" for an atom and 0 for an id;
\* it binds no value, so its INSERT fails. The confidence column is read by
\* no computation of the model and is left out of the rows.
InsertAccepted(rows, id, item) ==
    /\ \A r \in rows : r.id # id
    /\ item.name # <<>>
    /\ item.category \in validCategories
    /\ item.quantity # ""
    /\ item.expiryDate # <<>>
    /\ item.confidence # ""

\* An id the client puts into a bulk item that no uuidv4() call returns
ClientId == 101

\* The items of a bulk request body
BulkItems ==
    {[id |-> 0, name |-> Milk, category |-> "Dairy", quantity |-> "1",
      expiryDate |-> <<2024, 6, 12>>, confidence |-> "1"],
     [id |-> ClientId, name |-> Eggs, category |-> "Dairy", quantity |-> "1",
      expiryDate |-> <<2024, 6, 12>>, confidence |-> "1"],
     [id |-> 0, name |-> Milk, category |-> "Snacks", quantity |-> "1",
      expiryDate |-> <<2024, 6, 12>>, confidence |-> "1"],
     [id |-> 0, name |-> <<>>, category |-> "Dairy", quantity |-> "1",
      expiryDate |-> <<2024, 6, 12>>, confidence |-> "1"]}

\* req.body of POST /bulk: items is an array, or it is missing or no array
BulkBodies ==
    {[array |-> FALSE, items |-> <<>>]}
    \cup {[array |-> TRUE, items |-> s] : s \in SeqsUpTo(BulkItems, MaxBulk)}

RECURSIVE insertMany(_, _, _, _)
\* The loop of the transaction over items, from the table rows and the next
\* uuid id: the table and the next uuid after it, ok = FALSE from the first
\* stmt.run that throws
insertMany(rows, id, u, items) ==
    IF items = <<>> THEN [ok |-> TRUE, rows |-> rows, nextId |-> id]
    ELSE LET item == Head(items)
             itemId == IF item.id # 0 THEN item.id ELSE id
             after == IF item.id # 0 THEN id ELSE id + 1
         IN  IF InsertAccepted(rows, itemId, item)
             THEN insertMany(rows \cup {[id |-> itemId, user_id |-> u, name |-> item.name,
                                        category |-> item.category,
                                        quantity |-> item.quantity,
                                        expiry_date |-> item.expiryDate]},
                             after, u, Tail(items))
             ELSE [ok |-> FALSE, rows |-> rows, nextId |-> id]

\* POST /bulk whose loop runs outside a transaction: the rows inserted
\* before the failing one stay
AddBulk_partial(u, body) ==
    /\ Idle
    /\ rendered' = NoRender
    /\ req' = [route |-> "POST /bulk", user |-> u, body |-> body]
    /\ gemini' = NoCall
    /\ UNCHANGED <<now, pushed>>
    /\ IF ~body.array
       THEN /\ res' = [route |-> "POST /bulk", user |-> u, status |-> 400,
                       success |-> FALSE, error |-> "Items array required"]
            /\ UNCHANGED <<ingredients, nextId>>
       ELSE LET done == insertMany(ingredients, nextId, u, body.items)
            IN  /\ done.nextId <= MaxItems + 1
                /\ IF done.ok
                   THEN /\ ingredients' = done.rows
                        /\ nextId' = done.nextId
                        /\ res' = [route |-> "POST /bulk", user |-> u, status |-> 201,
                                   success |-> TRUE, data |-> [added |-> Len(body.items)]]
                   ELSE /\ res' = [route |-> "POST /bulk", user |-> u, status |-> 500,
                                   success |-> FALSE, error |-> "Failed to add items"]
                        /\ ingredients' = done.rows
                        /\ nextId' = done.nextId

\* db.transaction commits when the loop returns and rolls back when it
\* throws (the ids of a rolled-back batch are handed out again: a uuid stands
\* for nothing but itself)
AddBulk(u, body) ==
    /\ Idle
    /\ rendered' = NoRender
    /\ req' = [route |-> "POST /bulk", user |-> u, body |-> body]
    /\ gemini' = NoCall
    /\ UNCHANGED <<now, pushed>>
    /\ IF ~body.array
       THEN /\ res' = [route |-> "POST /bulk", user |-> u, status |-> 400,
                       success |-> FALSE, error |-> "Items array required"]
            /\ UNCHANGED <<ingredients, nextId>>
       ELSE LET done == insertMany(ingredients, nextId, u, body.items)
            IN  /\ done.nextId <= MaxItems + 1
                /\ IF done.ok
                   THEN /\ ingredients' = done.rows
                        /\ nextId' = done.nextId
                        /\ res' = [route |-> "POST /bulk", user |-> u, status |-> 201,
                                   success |-> TRUE, data |-> [added |-> Len(body.items)]]
                   ELSE /\ res' = [route |-> "POST /bulk", user |-> u, status |-> 500,
                                   success |-> FALSE, error |-> "Failed to add items"]
                        /\ UNCHANGED <<ingredients, nextId>>

\* req.body of PUT /:id: every field given, or only category, or none
UpdateBodies ==
    [name : {Eggs}, category : {"Meat", "Snacks"}, quantity : {"2"},
     expiryDate : {<<2024, 6, 14>>}, confidence : {"1"}]
    \cup [name : {<<>>}, category : {"", "Meat", "Snacks"}, quantity : {""},
          expiryDate : {<<>>}, confidence : {""}]

HasUndefined(body) ==
    \/ body.name = <<>> \/ body.category = "" \/ body.quantity = ""
    \/ body.expiryDate = <<>> \/ body.confidence = ""

\* SET name = COALESCE(?, name), category = COALESCE(?, category), ...
Coalesced(r, body) ==
    [id |-> r.id, user_id |-> r.user_id,
     name |-> IF body.name = <<>> THEN r.name ELSE body.name,
     category |-> IF body.category = "" THEN r.category ELSE body.category,
     quantity |-> IF body.quantity = "" THEN r.quantity ELSE body.quantity,
     expiry_date |-> IF body.expiryDate = <<>> THEN r.expiry_date ELSE body.expiryDate]

UpdateItem_anyOwner(u, id, body, binds) ==
    /\ Idle
    /\ rendered' = NoRender
    /\ req' = [route |-> "PUT /:id", user |-> u, id |-> id, body |-> body]
    /\ gemini' = NoCall
    /\ UNCHANGED <<now, nextId, pushed>>
    /\ IF ~\E r \in ingredients : r.id = id
       THEN /\ res' = [route |-> "PUT /:id", user |-> u, status |-> 404,
                       success |-> FALSE, error |-> "Item not found"]
            /\ UNCHANGED ingredients
       ELSE LET existing == CHOOSE r \in ingredients : r.id = id
                updated == Coalesced(existing, body)
            IN  IF \/ HasUndefined(body) /\ binds = "throw"
                   \/ updated.category \notin validCategories
                THEN /\ res' = [route |-> "PUT /:id", user |-> u, status |-> 500,
                                success |-> FALSE, error |-> "Failed to update item"]
                     /\ UNCHANGED ingredients
                ELSE /\ ingredients' = (ingredients \ {existing}) \cup {updated}
                     /\ res' = [route |-> "PUT /:id", user |-> u, status |-> 200,
                                success |-> TRUE, data |-> Project(updated)]

UpdateItem(u, id, body, binds) ==
    /\ Idle
    /\ rendered' = NoRender
    /\ req' = [route |-> "PUT /:id", user |-> u, id |-> id, body |-> body]
    /\ gemini' = NoCall
    /\ UNCHANGED <<now, nextId, pushed>>
    /\ IF ~\E r \in ingredients : r.id = id /\ r.user_id = u
       THEN /\ res' = [route |-> "PUT /:id", user |-> u, status |-> 404,
                       success |-> FALSE, error |-> "Item not found"]
            /\ UNCHANGED ingredients
       ELSE LET existing == CHOOSE r \in ingredients : r.id = id /\ r.user_id = u
                updated == Coalesced(existing, body)
            IN  IF \/ HasUndefined(body) /\ binds = "throw"
                   \/ updated.category \notin validCategories
                THEN /\ res' = [route |-> "PUT /:id", user |-> u, status |-> 500,
                                success |-> FALSE, error |-> "Failed to update item"]
                     /\ UNCHANGED ingredients
                ELSE /\ ingredients' = (ingredients \ {existing}) \cup {updated}
                     /\ res' = [route |-> "PUT /:id", user |-> u, status |-> 200,
                                success |-> TRUE, data |-> Project(updated)]

\* The bodies of POST / of the write specification
WriteAddBodies ==
    [name : {Milk}, category : {"Dairy", "Snacks"}, quantity : {"1"},
     expiryDate : {<<2024, 6, 12>>}]

\* The ids a client names: the ids handed out so far and its own
KnownIds == {i \in 1..MaxItems : i < nextId} \cup {ClientId}

NextWrites ==
    \/ Idle /\ UNCHANGED <<client, notify, usageStats, receipts, push, accounts, scanner>>
            /\ \E u \in Users, body \in WriteAddBodies : AddItem(u, body)
    \/ Idle /\ UNCHANGED <<client, preferences, usageStats, receipts, push, accounts, scanner>>
            /\ \E u \in Users, body \in BulkBodies : AddBulk(u, body)
    \/ Idle /\ UNCHANGED <<client, preferences, usageStats, receipts, push, accounts, scanner>>
            /\ \E u \in Users, id \in KnownIds, body \in UpdateBodies, binds \in UndefinedBinds :
                   UpdateItem(u, id, body, binds)
    \/ Idle /\ UNCHANGED <<client, notify, usageStats, receipts, push, accounts, scanner>>
            /\ \E u \in Users, id \in KnownIds : DeleteItem(u, id)
    \/ Respond /\ UNCHANGED <<client, preferences, usageStats, receipts, push, accounts, scanner>>

SpecWrites == Init /\ [][NextWrites]_vars

\* The categories a write request names
NamesInvalidCategory(category) == category # "" /\ category \notin validCategories

\* C15: every stored ingredient has one of the five categories, and an add,
\* bulk-add or update request that names another category leaves the
\* ingredients table as it was.
C15_CategoriesStayValid ==
    /\ [](\A r \in ingredients : r.category \in validCategories)
    /\ [][/\ \A u \in Users, body \in WriteAddBodies :
                (AddItem(u, body) /\ NamesInvalidCategory(body.category))
                    => ingredients' = ingredients
          /\ (req'.route = "POST /bulk"
                 /\ \E i \in 1..Len(req'.body.items) :
                        NamesInvalidCategory(req'.body.items[i].category))
                => ingredients' = ingredients
          /\ (req'.route = "PUT /:id" /\ NamesInvalidCategory(req'.body.category))
                => ingredients' = ingredients]_vars

\* An update that names the category Snacks for a stored row of the requester
\* was refused, and a row is stored
C15_Witness ==
    /\ req.route = "PUT /:id"
    /\ req.body.category = "Snacks"
    /\ res.status = 500
    /\ \E r \in ingredients : r.id = req.id /\ r.user_id = req.user

\* A record of a bulk body that passes validation: every field present and
\* one of the five categories
ValidRecord(item) ==
    /\ item.name # <<>> /\ item.quantity # "" /\ item.expiryDate # <<>>
    /\ item.confidence # ""
    /\ item.category \in validCategories

\* C18: after a bulk import the batch is not aborted and every valid record
\* of it is stored for the requester, whatever the other records are.
C18_BulkRejectsSingly ==
    (req.route = "POST /bulk" /\ req.body.array) =>
        /\ res.status = 201
        /\ \A i \in 1..Len(req.body.items) :
               ValidRecord(req.body.items[i]) =>
                   \E r \in ingredients :
                       /\ r.user_id = req.user
                       /\ r.name = req.body.items[i].name
                       /\ r.category = req.body.items[i].category
                       /\ r.expiry_date = req.body.items[i].expiryDate

\* C19: an update or delete request for an id that is the id of no row of
\* the requester (no row at all, or a row of another user) is answered 404
\* with success false and leaves the ingredients table as it was.
C19_NotFoundChangesNothing ==
    [][\A u \in Users, id \in KnownIds :
           (/\ ~\E r \in ingredients : r.id = id /\ r.user_id = u
            /\ \/ DeleteItem(u, id)
               \/ \E body \in UpdateBodies, binds \in UndefinedBinds :
                      UpdateItem(u, id, body, binds))
               => /\ res'.status = 404
                  /\ res'.success = FALSE
                  /\ ingredients' = ingredients]_vars

\* An update of the row of another user was answered 404
C19_Witness ==
    /\ req.route = "PUT /:id"
    /\ res.status = 404
    /\ \E r \in ingredients : r.id = req.id /\ r.user_id # req.user

-----------------------------------------------------------------------------
(* services/gemini: parseReceiptText, and POST /api/receipts/upload *)

\* The receipts table holds at most this many rows.
MaxReceipts == 1

\* The longest array the receipt parser answers with
MaxParsed == 2

\* Names every object inherits from Object.prototype
Inherited == {"constructor"}

\* EXPIRY_DEFAULTS[category]: the day count of the five keys, the inherited
\* member for a name of Object.prototype, undefined for any other key
EXPIRY_DEFAULTS(category) ==
    CASE category = "Produce" -> [kind |-> "number", days |-> 7]
      [] category = "Dairy"   -> [kind |-> "number", days |-> 14]
      [] category = "Meat"    -> [kind |-> "number", days |-> 4]
      [] category = "Pantry"  -> [kind |-> "number", days |-> 60]
      [] category = "Other"   -> [kind |-> "number", days |-> 30]
      [] category \in Inherited -> [kind |-> "function", days |-> 0]
      [] OTHER                -> [kind |-> "undefined", days |-> 0]

\* EXPIRY_DEFAULTS[category] || 0: the day count without the default of 30
expiryDays_noDefault(category) ==
    LET found == EXPIRY_DEFAULTS(category)
    IN  IF found.kind = "undefined" THEN [kind |-> "number", days |-> 0] ELSE found

\* EXPIRY_DEFAULTS[category] || 30: a function is truthy and is kept
expiryDays(category) ==
    LET found == EXPIRY_DEFAULTS(category)
    IN  IF found.kind = "undefined" THEN [kind |-> "number", days |-> 30] ELSE found

\* The elements the receipt parser answers with: category "" is a missing
\* category, quantity "" a missing quantity, confidence "" a missing one
ParsedItems ==
    [name : {Milk}, quantity : {"2"}, confidence : {"0.9"},
     category : {"Produce", "Dairy", "Meat", "Pantry", "Other", "Snacks", "",
                 "constructor"}]
    \cup [name : {Eggs}, quantity : {""}, confidence : {"", "0"}, category : {"Dairy"}]

\* result.response.text(): text JSON.parse refuses, a JSON value that is not
\* an array, or an array of elements
ParserOutputs ==
    {[kind |-> "malformed", items |-> <<>>], [kind |-> "object", items |-> <<>>]}
    \cup {[kind |-> "array", items |-> items] : items \in SeqsUpTo(ParsedItems, MaxParsed)}

ReceiptThrown == [ok |-> FALSE, error |-> "Failed to parse receipt with AI", items |-> <<>>]

\* One element of parsed.map(...): the ids are fresh uuids, here the position
ReceiptItem(item, i, today) ==
    [id |-> i,
     name |-> item.name,
     category |-> item.category,
     quantity |-> IF item.quantity = "" THEN "1" ELSE item.quantity,
     expiryDate |-> CivilFromDays(FutureDate(today, expiryDays(item.category).days)),
     confidence |-> IF item.confidence \in {"", "0"} THEN "0.85" ELSE item.confidence]

\* parseReceiptText(ocrText) on the parser's answer gen at time today:
\* JSON.parse throws on malformed text, parsed.map is no function of a value
\* that is not an array, and setDate(getDate() + expiryDays) with an inherited
\* function makes an invalid date of which toISOString throws; every throw of
\* the try block becomes the one rethrown Error.
parseReceiptText(gen, today) ==
    IF gen.kind # "array" THEN ReceiptThrown
    ELSE IF \E i \in 1..Len(gen.items) : expiryDays(gen.items[i].category).kind # "number"
    THEN ReceiptThrown
    ELSE [ok |-> TRUE, error |-> "",
          items |-> [i \in 1..Len(gen.items) |-> ReceiptItem(gen.items[i], i, today)]]

\* What reaches the handler of POST /upload: no file, a file of which the
\* OCR fails, or a file of which the OCR gives text
Uploads == {"none", "unreadable", "image"}

\* POST /api/receipts/upload
UploadReceipt(u, file, gen) ==
    /\ Idle
    /\ Len(receipts) < MaxReceipts
    /\ req' = [route |-> "POST /upload", user |-> u, file |-> file]
    /\ rendered' = NoRender
    /\ UNCHANGED <<now, ingredients, nextId>>
    /\ IF file = "none"
       THEN /\ res' = [route |-> "POST /upload", user |-> u, status |-> 400,
                       success |-> FALSE, error |-> "No file uploaded"]
            /\ gemini' = NoCall
            /\ UNCHANGED receipts
       ELSE IF file = "unreadable"
       THEN /\ res' = [route |-> "POST /upload", user |-> u, status |-> 500,
                       success |-> FALSE, error |-> "Failed to extract text from image"]
            /\ gemini' = NoCall
            /\ UNCHANGED receipts
       ELSE LET result == parseReceiptText(gen, now)
            IN  /\ gemini' = [called |-> TRUE, output |-> gen, result |-> result]
                /\ IF result.ok
                   THEN /\ receipts' = Append(receipts, [user_id |-> u,
                                                          items_count |-> Len(result.items)])
                        /\ res' = [route |-> "POST /upload", user |-> u, status |-> 200,
                                   success |-> TRUE, items |-> result.items]
                   ELSE /\ res' = [route |-> "POST /upload", user |-> u, status |-> 500,
                                   success |-> FALSE, error |-> result.error]
                        /\ UNCHANGED receipts

NextReceipts ==
    \/ Idle /\ UNCHANGED <<client, notify, usageStats, push, accounts, scanner>>
            /\ \E u \in Users, file \in Uploads, gen \in ParserOutputs :
                   UploadReceipt(u, file, gen)
    \/ Tick /\ UNCHANGED <<client, notify, usageStats, receipts, push, accounts, scanner>>
    \/ Respond /\ UNCHANGED <<client, preferences, usageStats, receipts, push, accounts, scanner>>

SpecReceipts == Init /\ [][NextReceipts]_vars

\* The items parseReceiptText returned to its caller in the last step
ReturnedItems ==
    IF gemini.called /\ req.route = "POST /upload" /\ gemini.result.ok
    THEN gemini.result.items ELSE <<>>

\* C16: every item parseReceiptText returns has a category among Produce,
\* Dairy, Pantry, Meat and Other, whatever category the parser's answer
\* carried.
C16_ReturnedCategoriesValid ==
    \A i \in 1..Len(ReturnedItems) : ReturnedItems[i].category \in validCategories

\* C17: every item parseReceiptText returns expires the table's day count
\* after the current date for its parsed category (Produce 7, Dairy 14,
\* Meat 4, Pantry 60, Other 30), and 30 days after it when the parsed
\* category is none of the five.
C17_ExpiryFromTable ==
    \A i \in 1..Len(ReturnedItems) :
        LET category == gemini.output.items[i].category
            count    == CASE category = "Produce" -> 7
                          [] category = "Dairy"   -> 14
                          [] category = "Meat"    -> 4
                          [] category = "Pantry"  -> 60
                          [] category = "Other"   -> 30
                          [] OTHER                -> 30
        IN  DaysFromCivil(ReturnedItems[i].expiryDate)
                = DaysFromCivil(CivilFromDays(now \div DayLen)) + count

\* Items were returned in the afternoon of a day, one for a category of the
\* table that is not Other and one for a category outside the table.
C17_Witness ==
    /\ Len(ReturnedItems) = 2
    /\ now % DayLen # 0
    /\ gemini.output.items[1].category = "Meat"
    /\ gemini.output.items[2].category \notin validCategories

-----------------------------------------------------------------------------
(* The read routes: GET /api/inventory/search and /expiring, with the list,
   the statistics, the recipe suggestions and the notification run *)

\* LIMIT 20 of GET /search
SearchLimit == 20

\* The stores the read operations run over hold at most this many rows.
MaxReadRows == 1

\* name LIKE '%q%': LIKE compares ASCII letters without regard to case (the
\* queries of the model hold no % and no _)
Like(name, q) == Includes(toLowerCase(name), toLowerCase(q))

\* req.query.q: absent, or a string
SearchQueries == {<<>>, <<"m">>, <<"x">>}

\* GET /search whose WHERE clause has no user_id condition
SearchRows_allUsers(rows, u, q) ==
    LET all     == RowsInIdOrder({r \in rows : Like(r.name, q)})
        ordered == SortAscending([i \in 1..Len(all) |->
                                     <<ExpiryKey(Project(all[i])), Project(all[i])>>])
    IN  IF Len(ordered) > SearchLimit THEN SubSeq(ordered, 1, SearchLimit) ELSE ordered

\* The rows GET /search selects: ORDER BY expiry_date ASC LIMIT 20
SearchRows(rows, u, q) ==
    LET all     == RowsInIdOrder({r \in UserRows(rows, u) : Like(r.name, q)})
        ordered == SortAscending([i \in 1..Len(all) |->
                                     <<ExpiryKey(Project(all[i])), Project(all[i])>>])
    IN  IF Len(ordered) > SearchLimit THEN SubSeq(ordered, 1, SearchLimit) ELSE ordered

\* GET /api/inventory/search
SearchInventory(u, q) ==
    /\ Idle
    /\ req' = [route |-> "GET /search", user |-> u, q |-> q]
    /\ res' = [route |-> "GET /search", user |-> u, status |-> 200, success |-> TRUE,
               data |-> IF q = <<>> THEN <<>> ELSE SearchRows(ingredients, u, q)]
    /\ rendered' = NoRender /\ gemini' = NoCall
    /\ UNCHANGED <<now, ingredients, nextId>>

\* req.query.days: absent (""), or a string
ExpiringQueries == {"", "0", "1", "x"}

\* parseInt over the strings of the model
parseInt(str) ==
    CASE str = "0" -> 0
      [] str = "1" -> 1
      [] str = "3" -> 3
      [] OTHER     -> NaN

\* const { days = 3 } = req.query; parseInt(days) || 3
daysNum(days) ==
    LET n == parseInt(IF days = "" THEN "3" ELSE days)
    IN  IF n = NaN \/ n = 0 THEN 3 ELSE n

\* GET /expiring that also deletes the rows it did not select
GetExpiring_purging(u, days) ==
    /\ Idle
    /\ LET all == RowsInIdOrder(ExpiringItems(ingredients, u, now, daysNum(days)))
       IN  /\ res' = [route |-> "GET /expiring", user |-> u, status |-> 200,
                      success |-> TRUE,
                      data |-> SortAscending([i \in 1..Len(all) |->
                                  <<ExpiryKey(Project(all[i])), Project(all[i])>>])]
           /\ ingredients' = ingredients \ (UserRows(ingredients, u) \ {all[i] : i \in 1..Len(all)})
    /\ req' = [route |-> "GET /expiring", user |-> u, days |-> days]
    /\ rendered' = NoRender /\ gemini' = NoCall
    /\ UNCHANGED <<now, nextId>>

\* GET /api/inventory/expiring
GetExpiring(u, days) ==
    /\ Idle
    /\ LET all == RowsInIdOrder(ExpiringItems(ingredients, u, now, daysNum(days)))
       IN  res' = [route |-> "GET /expiring", user |-> u, status |-> 200,
                   success |-> TRUE,
                   data |-> SortAscending([i \in 1..Len(all) |->
                               <<ExpiryKey(Project(all[i])), Project(all[i])>>])]
    /\ req' = [route |-> "GET /expiring", user |-> u, days |-> days]
    /\ rendered' = NoRender /\ gemini' = NoCall
    /\ UNCHANGED <<now, ingredients, nextId>>

\* What the stores of the read operations are filled with
ReadAddBodies ==
    [name : {Milk}, category : {"Dairy"}, quantity : {"1"},
     expiryDate : {<<2024, 6, 9>>, <<2024, 6, 11>>}]

NextReads ==
    \/ Idle /\ nextId <= MaxReadRows /\ UNCHANGED <<client, notify, usageStats, receipts, push, accounts, scanner>>
            /\ \E u \in Users, body \in ReadAddBodies : AddItem(u, body)
    \/ Idle /\ UNCHANGED <<client, notify, usageStats, receipts, push, accounts, scanner>>
            /\ \E u \in Users : LoadData(u)
    \/ Idle /\ UNCHANGED <<client, notify, usageStats, receipts, push, accounts, scanner>>
            /\ \E u \in Users, q \in SearchQueries : SearchInventory(u, q)
    \/ Idle /\ UNCHANGED <<client, notify, usageStats, receipts, push, accounts, scanner>>
            /\ \E u \in Users : GetStats(u)
    \/ Idle /\ UNCHANGED <<client, notify, usageStats, receipts, push, accounts, scanner>>
            /\ \E u \in Users, days \in ExpiringQueries : GetExpiring(u, days)
    \/ Idle /\ UNCHANGED <<client, notify, usageStats, receipts, push, accounts, scanner>>
            /\ \E u \in Users, body \in SuggestBodies, gen \in ViewGenOutputs :
                   SuggestPost(u, body, gen)
    \/ Idle /\ UNCHANGED <<client, notify, usageStats, receipts, push, accounts, scanner>>
            /\ \E u \in Users, gen \in ViewGenOutputs : SuggestGet(u, gen)
    \/ sendExpiryNotifications /\ UNCHANGED <<client, usageStats, receipts, push, accounts, scanner>>
    \/ Tick /\ UNCHANGED <<client, notify, usageStats, receipts, push, accounts, scanner>>
    \/ Respond /\ UNCHANGED <<client, preferences, usageStats, receipts, push, accounts, scanner>>

SpecReads == Init /\ [][NextReads]_vars

\* The routes that only read the inventory
ReadRoutes ==
    {"GET /", "GET /search", "GET /stats", "GET /expiring", "POST /suggest", "GET /suggest"}

\* C20: a step in which the inventory list, the search, the statistics, the
\* expiring list or a recipe suggestion answers, with success or with an
\* error, or in which sendExpiryNotifications runs, leaves the set of stored
\* ingredients and every field of every ingredient as they were.
C20_ReadsLeaveStoreUnchanged ==
    [][((res = NoRes /\ res'.route \in ReadRoutes) \/ (~pushed.ran /\ pushed'.ran))
           => ingredients' = ingredients]_vars

\* A recipe suggestion failed over a store that holds a row.
C20_Witness ==
    /\ res.route \in {"POST /suggest", "GET /suggest"}
    /\ res.status = 500
    /\ ingredients # {}


-----------------------------------------------------------------------------
(* services/notifications: the push subscriptions and sendNotificationToUser;
   routes/notifications: POST /subscribe, /unsubscribe and /test *)

\* The endpoints and key pairs browsers subscribe with
Endpoints == {"e1", "e2"}

\* req.body.subscription.keys: absent, an object without p256dh and auth
\* (both ""), or a key pair
KeyObjects ==
    {[present |-> FALSE, p256dh |-> "", auth |-> ""],
     [present |-> TRUE, p256dh |-> "", auth |-> ""],
     [present |-> TRUE, p256dh |-> "p1", auth |-> "a1"],
     [present |-> TRUE, p256dh |-> "p2", auth |-> "a2"]}

\* req.body of POST /subscribe: subscription absent, or with an endpoint
\* (absent as "") and keys
SubscribeBodies ==
    [subscription : {FALSE}, endpoint : {""}, keys : {[present |-> FALSE, p256dh |-> "", auth |-> ""]}]
    \cup [subscription : {TRUE}, endpoint : Endpoints \cup {""}, keys : KeyObjects]

\* req.body of POST /unsubscribe
UnsubscribeBodies == [endpoint : Endpoints \cup {""}]

\* The rows of a table held in rowid order
RowSet(rows) == {rows[i] : i \in 1..Len(rows)}

\* DELETE FROM push_subscriptions WHERE endpoint = ?
removeSubscription(rows, endpoint) ==
    Filter(rows, {r \in RowSet(rows) : r.endpoint # endpoint})

\* saveSubscription that inserts without the DELETE, into a table without
\* the UNIQUE constraint
saveSubscription_noDelete(rows, userId, subscription) ==
    IF subscription.keys.p256dh = "" \/ subscription.keys.auth = ""
    THEN [ok |-> FALSE, rows |-> rows]
    ELSE [ok |-> TRUE,
          rows |-> Append(rows, [user_id |-> userId, endpoint |-> subscription.endpoint,
                                 keys_p256dh |-> subscription.keys.p256dh,
                                 keys_auth |-> subscription.keys.auth])]

\* saveSubscription(userId, subscription): the DELETE commits on its own, then
\* the INSERT runs; it fails on a key that is undefined (keys_p256dh and
\* keys_auth are NOT NULL), and the row deleted before stays deleted. After
\* the DELETE no row holds the endpoint, so UNIQUE(endpoint) cannot fail; the
\* id is a fresh uuid, which the model leaves out.
saveSubscription(rows, userId, subscription) ==
    LET deleted == removeSubscription(rows, subscription.endpoint)
    IN  IF subscription.keys.p256dh = "" \/ subscription.keys.auth = ""
        THEN [ok |-> FALSE, rows |-> deleted]
        ELSE [ok |-> TRUE,
              rows |-> Append(deleted, [user_id |-> userId, endpoint |-> subscription.endpoint,
                                        keys_p256dh |-> subscription.keys.p256dh,
                                        keys_auth |-> subscription.keys.auth])]

\* POST /api/notifications/subscribe
Subscribe(u, body) ==
    /\ Idle
    /\ req' = [route |-> "POST /subscribe", user |-> u, body |-> body]
    /\ rendered' = NoRender /\ gemini' = NoCall
    /\ UNCHANGED <<now, ingredients, nextId, delivery>>
    /\ IF ~body.subscription \/ body.endpoint = "" \/ ~body.keys.present
       THEN /\ res' = [route |-> "POST /subscribe", user |-> u, status |-> 400,
                       success |-> FALSE, error |-> "Invalid subscription"]
            /\ UNCHANGED subscriptions
       ELSE LET done == saveSubscription(subscriptions, u, body)
            IN  /\ subscriptions' = done.rows
                /\ res' = IF done.ok
                          THEN [route |-> "POST /subscribe", user |-> u, status |-> 200,
                                success |-> TRUE, message |-> "Subscribed successfully"]
                          ELSE [route |-> "POST /subscribe", user |-> u, status |-> 500,
                                success |-> FALSE, error |-> "Failed to subscribe"]

\* POST /api/notifications/unsubscribe
Unsubscribe(u, body) ==
    /\ Idle
    /\ req' = [route |-> "POST /unsubscribe", user |-> u, body |-> body]
    /\ rendered' = NoRender /\ gemini' = NoCall
    /\ UNCHANGED <<now, ingredients, nextId, delivery>>
    /\ IF body.endpoint = ""
       THEN /\ res' = [route |-> "POST /unsubscribe", user |-> u, status |-> 400,
                       success |-> FALSE, error |-> "Endpoint required"]
            /\ UNCHANGED subscriptions
       ELSE /\ subscriptions' = removeSubscription(subscriptions, body.endpoint)
            /\ res' = [route |-> "POST /unsubscribe", user |-> u, status |-> 200,
                       success |-> TRUE, message |-> "Unsubscribed successfully"]

\* What webpush.sendNotification comes to: it resolves, it rejects with a
\* statusCode, or it rejects with an error that has none
Outcomes == {"sent", "404", "410", "500", "network"}

\* POST /api/notifications/test up to the first await of
\* sendNotificationToUser: SELECT * FROM push_subscriptions WHERE user_id = ?
\* (one call runs at a time)
TestNotification(u) ==
    /\ Idle
    /\ ~delivery.active
    /\ delivery' = [active |-> TRUE, userId |-> u,
                    subscriptions |-> Filter(subscriptions,
                                             {r \in RowSet(subscriptions) : r.user_id = u}),
                    index |-> 1, attempts |-> <<>>]
    /\ UNCHANGED <<now, ingredients, nextId, res, rendered, req, gemini, subscriptions>>

\* One pass of the loop that stops at the first delivery that fails
Deliver_stopping(outcome) ==
    /\ Idle
    /\ delivery.active
    /\ delivery.index <= Len(delivery.subscriptions)
    /\ LET sub == delivery.subscriptions[delivery.index]
       IN  /\ subscriptions' = IF outcome \in {"404", "410"}
                               THEN removeSubscription(subscriptions, sub.endpoint)
                               ELSE subscriptions
           /\ delivery' = [delivery EXCEPT
                  !.index = IF outcome = "sent" THEN @ + 1
                            ELSE Len(delivery.subscriptions) + 1,
                  !.attempts = Append(@, [endpoint |-> sub.endpoint, outcome |-> outcome])]
    /\ UNCHANGED <<now, ingredients, nextId, res, rendered, req, gemini>>

\* One pass of the loop of sendNotificationToUser, from one await to the
\* next: the delivery to sub settles, and the catch block removes the
\* subscription of its endpoint on a statusCode of 404 or 410
Deliver(outcome) ==
    /\ Idle
    /\ delivery.active
    /\ delivery.index <= Len(delivery.subscriptions)
    /\ LET sub == delivery.subscriptions[delivery.index]
       IN  /\ subscriptions' = IF outcome \in {"404", "410"}
                               THEN removeSubscription(subscriptions, sub.endpoint)
                               ELSE subscriptions
           /\ delivery' = [delivery EXCEPT
                  !.index = @ + 1,
                  !.attempts = Append(@, [endpoint |-> sub.endpoint, outcome |-> outcome])]
    /\ UNCHANGED <<now, ingredients, nextId, res, rendered, req, gemini>>

\* The loop is over: sendNotificationToUser resolves and POST /test answers
TestNotificationSent ==
    /\ Idle
    /\ delivery.active
    /\ delivery.index > Len(delivery.subscriptions)
    /\ delivery' = NoDelivery
    /\ res' = [route |-> "POST /test", user |-> delivery.userId, status |-> 200,
               success |-> TRUE, message |-> "Test notification sent"]
    /\ req' = [route |-> "POST /test", user |-> delivery.userId]
    /\ rendered' = NoRender /\ gemini' = NoCall
    /\ UNCHANGED <<now, ingredients, nextId, subscriptions>>

NextPush ==
    \/ Idle /\ UNCHANGED <<client, notify, usageStats, receipts, accounts, scanner>>
            /\ \E u \in Users, body \in SubscribeBodies : Subscribe(u, body)
    \/ Idle /\ UNCHANGED <<client, notify, usageStats, receipts, accounts, scanner>>
            /\ \E u \in Users, body \in UnsubscribeBodies : Unsubscribe(u, body)
    \/ Idle /\ UNCHANGED <<client, notify, usageStats, receipts, accounts, scanner>>
            /\ \E u \in Users : TestNotification(u)
    \/ Idle /\ UNCHANGED <<client, notify, usageStats, receipts, accounts, scanner>>
            /\ \E outcome \in Outcomes : Deliver(outcome)
    \/ TestNotificationSent /\ UNCHANGED <<client, notify, usageStats, receipts, accounts, scanner>>
    \/ Respond /\ UNCHANGED <<client, preferences, usageStats, receipts, push, accounts, scanner>>

SpecPush == Init /\ [][NextPush]_vars


\* The row POST /subscribe writes for the request req
RequestedRow ==
    [user_id |-> req.user, endpoint |-> req.body.endpoint,
     keys_p256dh |-> req.body.keys.p256dh, keys_auth |-> req.body.keys.auth]

\* C22: no two stored push subscriptions have the same endpoint; after a
\* subscribe that succeeded the row of its endpoint has the requester as user
\* and the keys of the request; and a row that enters the table is the row of
\* the subscribe request of that step, so that the row of an endpoint is
\* always the one its last subscriber wrote.
C22_OneSubscriptionPerEndpoint ==
    /\ [](/\ \A i, j \in 1..Len(subscriptions) :
                 subscriptions[i].endpoint = subscriptions[j].endpoint => i = j
          /\ (res.route = "POST /subscribe" /\ res.status = 200) =>
                 {r \in RowSet(subscriptions) : r.endpoint = req.body.endpoint}
                     = {RequestedRow})
    /\ [][\A r \in RowSet(subscriptions') :
              \/ r \in RowSet(subscriptions)
              \/ /\ res'.route = "POST /subscribe" /\ res'.status = 200
                 /\ r = [user_id |-> req'.user, endpoint |-> req'.body.endpoint,
                         keys_p256dh |-> req'.body.keys.p256dh,
                         keys_auth |-> req'.body.keys.auth]]_vars

\* A user took over the endpoint another user had subscribed, with other keys.
C22_Witness ==
    /\ res.route = "POST /subscribe" /\ res.status = 200
    /\ req.user = "u2" /\ req.body.endpoint = "e1" /\ req.body.keys.p256dh = "p2"
    /\ Len(subscriptions) = 2
    /\ \E i \in 1..Len(subscriptions) : subscriptions[i].user_id = "u1"

\* C23: every pass of the loop of sendNotificationToUser attempts the
\* delivery to the next selected subscription and goes on to the one after
\* it whatever the outcome; it removes the subscription of the endpoint
\* exactly on a failure with status 404 or 410; the call ends, with the
\* success response of its caller, when every selected subscription has been
\* attempted.
C23_DeliveryToEverySubscription ==
    [][(delivery.active /\ delivery' # delivery) =>
          IF delivery'.active
          THEN LET sub     == delivery.subscriptions[delivery.index]
                   attempt == delivery'.attempts[Len(delivery'.attempts)]
               IN  /\ delivery'.index = delivery.index + 1
                   /\ delivery'.attempts =
                          Append(delivery.attempts,
                                 [endpoint |-> sub.endpoint, outcome |-> attempt.outcome])
                   /\ attempt.outcome \in {"404", "410"} =>
                          /\ \A r \in RowSet(subscriptions') : r.endpoint # sub.endpoint
                          /\ \A r \in RowSet(subscriptions) :
                                 r.endpoint # sub.endpoint => r \in RowSet(subscriptions')
                   /\ attempt.outcome \notin {"404", "410"} => subscriptions' = subscriptions
          ELSE /\ [k \in 1..Len(delivery.attempts) |-> delivery.attempts[k].endpoint]
                      = [k \in 1..Len(delivery.subscriptions) |->
                             delivery.subscriptions[k].endpoint]
               /\ res'.route = "POST /test" /\ res'.status = 200
               /\ subscriptions' = subscriptions]_vars

\* The first delivery failed with 410 and its subscription is gone; the
\* second was attempted, failed otherwise, and its subscription is kept.
C23_Witness ==
    /\ delivery.active
    /\ Len(delivery.attempts) = 2
    /\ delivery.attempts[1].outcome = "410"
    /\ delivery.attempts[2].outcome = "500"
    /\ \A r \in RowSet(subscriptions) : r.endpoint # delivery.attempts[1].endpoint
    /\ \E r \in RowSet(subscriptions) : r.endpoint = delivery.attempts[2].endpoint

\* C26: a subscribe or unsubscribe request of a user leaves every
\* subscription stored for another user in the table, unchanged.
C26_OnlyOwnSubscriptions ==
    [][(res = NoRes /\ res'.route \in {"POST /subscribe", "POST /unsubscribe"}) =>
          \A r \in RowSet(subscriptions) :
              r.user_id # req'.user => r \in RowSet(subscriptions')]_vars

-----------------------------------------------------------------------------
(* Properties of the RecipeView under overlapping requests *)

\* C21: once every recipe request of the mounted RecipeView has settled, the
\* recipes on display are those of the request that was made with the
\* inventory the view is showing, also when an earlier request, made with
\* the inventory shown before, settled after it.
C21_LatestInventoryWins ==
    (/\ mainApp.activeTab = "recipes"
     /\ Len(filteredInventory(mainApp)) > 0
     /\ inflight = <<>>
     /\ rendered.view = "recipes"
     /\ rendered.outcome \in {"then", "catch"})
        => rendered.request.inventory = filteredInventory(mainApp)

-----------------------------------------------------------------------------
(* PUT /api/notifications/preferences with bodies that leave fields out *)

\* req.body of PUT /preferences: each field left out or given
PartialPrefBodies ==
    [expiryDaysBefore : {Undefined, 1, 3}, dailySummary : {Undefined, 0, 1},
     notifyTime : {"", "08:00"}, enabled : {Undefined, 0, 1}]

NextPrefs ==
    \/ Idle /\ UNCHANGED client
            /\ UNCHANGED <<usageStats, receipts, push, accounts, scanner>>
            /\ \E u \in Users, body \in PartialPrefBodies, binds \in UndefinedBinds :
                   PutPreferences(u, body, binds)
    \/ Respond /\ UNCHANGED <<client, preferences, usageStats, receipts, push, accounts, scanner>>

SpecPrefs == Init /\ [][NextPrefs]_vars

\* C25: a preferences update of a user who has a preference row leaves
\* every field its body omits at the value the row had, and, when it
\* succeeds, sets every field its body supplies; an update without enabled
\* never takes enabled from 1 to 0.
C25_OmittedFieldsKept ==
    [][(res = NoRes /\ res'.route = "PUT /preferences"
            /\ preferences[res'.user] # NoPref) =>
          LET old  == preferences[res'.user]
              new  == preferences'[res'.user]
              body == req'.body
          IN  /\ body.expiryDaysBefore = Undefined =>
                     new.expiry_days_before = old.expiry_days_before
              /\ body.dailySummary = Undefined => new.daily_summary = old.daily_summary
              /\ body.notifyTime = "" => new.notify_time = old.notify_time
              /\ body.enabled = Undefined => new.enabled = old.enabled
              /\ res'.status = 200 =>
                     /\ body.expiryDaysBefore # Undefined =>
                            new.expiry_days_before = body.expiryDaysBefore
                     /\ body.dailySummary # Undefined => new.daily_summary = body.dailySummary
                     /\ body.notifyTime # "" => new.notify_time = body.notifyTime
                     /\ body.enabled # Undefined => new.enabled = body.enabled]_vars

-----------------------------------------------------------------------------
(* routes/auth: POST /api/auth/register *)

\* The registrations that wait for bcrypt at one time
MaxRegistering == 2

\* The ids uuidv4() hands to new users, in the order it hands them out
NewUserIds == <<"u3", "u4", "u5", "u6">>

Secret == <<"s", "e", "c", "r", "e", "t">>

\* req.body of POST /register
RegisterBodies ==
    [email : {<<"a">>, <<"A">>, <<"c">>, <<"C">>, <<"d">>}, password : {Secret}, name : {"N"}]
    \cup {[email |-> <<>>, password |-> Secret, name |-> "N"],
          [email |-> <<"c">>, password |-> SubSeq(Secret, 1, 5), name |-> "N"],
          [email |-> <<"c">>, password |-> Secret, name |-> ""]}

\* The answers of POST /register that create nothing
RegisterRefused(body, status, error) ==
    [route |-> "POST /register", status |-> status, success |-> FALSE, error |-> error,
     email |-> body.email]

\* SELECT id FROM users WHERE email = ?: the comparison of TEXT is by bytes
existingUser(rows, email) == \E i \in 1..Len(rows) : rows[i].email = email

\* POST /register up to its first await: the validation and the look-up of
\* the email as the body gives it
Register(body) ==
    /\ Idle
    /\ Len(registering) < MaxRegistering
    /\ rendered' = NoRender /\ gemini' = NoCall
    /\ UNCHANGED <<now, ingredients, nextId, users, preferences>>
    /\ IF body.email = <<>> \/ body.password = <<>> \/ body.name = ""
       THEN /\ res' = RegisterRefused(body, 400, "Email, password, and name are required")
            /\ req' = [route |-> "POST /register", body |-> body]
            /\ UNCHANGED registering
       ELSE IF Len(body.password) < 6
       THEN /\ res' = RegisterRefused(body, 400, "Password must be at least 6 characters")
            /\ req' = [route |-> "POST /register", body |-> body]
            /\ UNCHANGED registering
       ELSE IF existingUser(users, body.email)
       THEN /\ res' = RegisterRefused(body, 400, "Email already registered")
            /\ req' = [route |-> "POST /register", body |-> body]
            /\ UNCHANGED registering
       ELSE /\ registering' = Append(registering, body)
            /\ UNCHANGED <<res, req>>

\* POST /register after bcrypt: INSERT INTO users with the lower-cased email,
\* which UNIQUE(email) refuses with a throw that the catch answers with 500;
\* then the default row of notification_preferences and the 201
RegisterInsert(i) ==
    /\ Idle
    /\ LET body  == registering[i]
           email == toLowerCase(body.email)
           id    == NewUserIds[Len(users) - 1]
       IN  /\ req' = [route |-> "POST /register", body |-> body]
           /\ IF \E k \in 1..Len(users) : users[k].email = email
              THEN /\ res' = RegisterRefused(body, 500, "Failed to create account")
                   /\ UNCHANGED <<users, preferences>>
              ELSE /\ users' = Append(users, [id |-> id, email |-> email, name |-> body.name])
                   /\ preferences' = [u \in DOMAIN preferences \cup {id} |->
                                         IF u = id THEN DefaultPref ELSE preferences[u]]
                   /\ res' = [route |-> "POST /register", status |-> 201, success |-> TRUE,
                              error |-> "", email |-> email, id |-> id]
    /\ registering' = [k \in 1..(Len(registering) - 1) |->
                          IF k < i THEN registering[k] ELSE registering[k + 1]]
    /\ rendered' = NoRender /\ gemini' = NoCall
    /\ UNCHANGED <<now, ingredients, nextId>>

NextAuth ==
    \/ Idle /\ UNCHANGED <<client, pushed, usageStats, receipts, push, scanner>>
            /\ \E body \in RegisterBodies : Register(body)
    \/ Idle /\ UNCHANGED <<client, pushed, usageStats, receipts, push, scanner>>
            /\ \E i \in 1..Len(registering) : RegisterInsert(i)
    \/ Respond /\ UNCHANGED <<client, preferences, usageStats, receipts, push, accounts, scanner>>

SpecAuth == Init /\ [][NextAuth]_vars

\* C24: no two stored users have the same email; and a registration with
\* name, email and a password of six characters whose email, lower-cased, is
\* the email of a stored user at the moment it is answered, is answered with
\* the 400 'Email already registered' and adds no user and no preference row.
C24_DuplicateEmailRefused ==
    /\ [](\A i, j \in 1..Len(users) : users[i].email = users[j].email => i = j)
    /\ [][(/\ res = NoRes /\ res'.route = "POST /register"
           /\ req'.body.email # <<>> /\ req'.body.name # ""
           /\ Len(req'.body.password) >= 6
           /\ \E k \in 1..Len(users) : users[k].email = toLowerCase(req'.body.email))
              => /\ res'.status = 400
                 /\ res'.error = "Email already registered"
                 /\ users' = users
                 /\ preferences' = preferences]_vars

-----------------------------------------------------------------------------
(* Properties of the bulk import and of the ownership of rows *)

\* C27: a bulk import either answers 201 with added = the number of items
\* of the batch, having added to the table one row of the requester for each
\* item and nothing else, or answers with an error and leaves the table as
\* it was.
C27_BulkAllOrNothing ==
    [][(res = NoRes /\ res'.route = "POST /bulk") =>
          LET items == req'.body.items
              added == ingredients' \ ingredients
          IN  \/ /\ res'.status = 201 /\ res'.success
                 /\ res'.data.added = Len(items)
                 /\ ingredients \subseteq ingredients'
                 /\ Cardinality(added) = Len(items)
                 /\ \A r \in added : r.user_id = req'.user
                 /\ \A i \in 1..Len(items) :
                        \E r \in added :
                            /\ r.name = items[i].name
                            /\ r.category = items[i].category
                            /\ r.quantity = items[i].quantity
                            /\ r.expiry_date = items[i].expiryDate
                            /\ items[i].id # 0 => r.id = items[i].id
              \/ /\ res'.status \in {400, 500} /\ ~res'.success
                 /\ ingredients' = ingredients]_vars

\* A batch failed at its second item, and the first, which was valid, is
\* not in the table.
C27_Witness ==
    /\ res.route = "POST /bulk" /\ res.status = 500
    /\ Len(req.body.items) = 2
    /\ ValidRecord(req.body.items[1]) /\ req.body.items[1].id = ClientId
    /\ ~ValidRecord(req.body.items[2])
    /\ \A r \in ingredients : r.id # ClientId

\* Every inventory route, with requests of both users
NextOwner ==
    \/ Idle /\ UNCHANGED <<client, notify, usageStats, receipts, push, accounts, scanner>>
            /\ \E u \in Users, body \in WriteAddBodies : AddItem(u, body)
    \/ Idle /\ UNCHANGED <<client, preferences, usageStats, receipts, push, accounts, scanner>>
            /\ \E u \in Users, body \in BulkBodies : AddBulk(u, body)
    \/ Idle /\ UNCHANGED <<client, preferences, usageStats, receipts, push, accounts, scanner>>
            /\ \E u \in Users, id \in KnownIds, body \in UpdateBodies, binds \in UndefinedBinds :
                   UpdateItem(u, id, body, binds)
    \/ Idle /\ UNCHANGED <<client, notify, usageStats, receipts, push, accounts, scanner>>
            /\ \E u \in Users, id \in KnownIds : DeleteItem(u, id)
    \/ Idle /\ UNCHANGED <<client, notify, usageStats, receipts, push, accounts, scanner>>
            /\ \E u \in Users : LoadData(u)
    \/ Idle /\ UNCHANGED <<client, notify, usageStats, receipts, push, accounts, scanner>>
            /\ \E u \in Users, q \in SearchQueries : SearchInventory(u, q)
    \/ Idle /\ UNCHANGED <<client, notify, usageStats, receipts, push, accounts, scanner>>
            /\ \E u \in Users : GetStats(u)
    \/ Idle /\ UNCHANGED <<client, notify, usageStats, receipts, push, accounts, scanner>>
            /\ \E u \in Users, days \in ExpiringQueries : GetExpiring(u, days)
    \/ Respond /\ UNCHANGED <<client, preferences, usageStats, receipts, push, accounts, scanner>>

SpecOwner == Init /\ [][NextOwner]_vars

\* The routes of /api/inventory
InventoryRoutes ==
    {"GET /", "GET /search", "GET /stats", "GET /expiring", "POST /", "POST /bulk",
     "PUT /:id", "DELETE /:id"}

\* The ids of the ingredients a response carries
ReturnedIds(r) ==
    IF ~r.success THEN {}
    ELSE IF r.route \in {"GET /", "GET /search", "GET /expiring"}
    THEN {r.data[i].id : i \in 1..Len(r.data)}
    ELSE IF r.route \in {"POST /", "PUT /:id"} THEN {r.data.id}
    ELSE IF r.route = "DELETE /:id" THEN {r.data.deleted}
    ELSE {}

\* C29: an inventory request of a user leaves every row of another user in
\* the table as it is, adds only rows of the requester, and returns only
\* ingredients whose row is the requester's; the statistics count the rows
\* of the requester alone.
C29_OwnerScoped ==
    [][(res = NoRes /\ res'.route \in InventoryRoutes) =>
          LET a == res'.user
          IN  /\ \A r \in ingredients : r.user_id # a => r \in ingredients'
              /\ \A r \in ingredients' \ ingredients : r.user_id = a
              /\ \A id \in ReturnedIds(res') :
                     \E r \in ingredients \cup ingredients' : r.id = id /\ r.user_id = a
              /\ res'.route = "GET /stats" =>
                     res'.data.total = Cardinality(UserRows(ingredients, a))]_vars

\* A search of one user matched rows of both users and returned her own.
C29_Witness ==
    /\ res.route = "GET /search" /\ req.q # <<>>
    /\ Len(res.data) > 0
    /\ \E r \in ingredients : r.user_id # res.user /\ Like(r.name, req.q)

-----------------------------------------------------------------------------
(* MainApp: deleteItem, addItems and addSingleItem *)

\* The local inventory holds at most this many items.
MaxLocal == 3

\* What becomes of the fetch of a request: it reaches the server and brings
\* its response back, or it rejects
Networks == {"ok", "down"}

\* The batches the scanner hands to addItems
ScannedBatches == SeqsUpTo(BulkItems, MaxBulk) \ {<<>>}

\* deleteItem(id): the item leaves the local inventory when the request
\* succeeded; the catch block only logs
deleteItem(id, net) ==
    /\ Idle
    /\ mainApp.backendStatus = "connected"
    /\ IF net = "ok"
       THEN /\ DeleteItem(Viewer, id)
            /\ mainApp' = IF res'.success
                          THEN [mainApp EXCEPT !.inventory =
                                   Filter(@, {item \in RowSet(@) : item.id # id})]
                          ELSE mainApp
       ELSE UNCHANGED <<now, ingredients, nextId, res, rendered, req, gemini, mainApp>>
    /\ UNCHANGED <<recipeView, inflight, notify, usageStats, receipts, push, accounts, scanner>>

\* addItems(items): the items join the local inventory after the request
\* succeeded, and in the catch block as well
addItems(items, net) ==
    /\ Idle
    /\ mainApp.backendStatus = "connected"
    /\ Len(mainApp.inventory) + Len(items) <= MaxLocal
    /\ mainApp' = [mainApp EXCEPT !.inventory = @ \o items]
    /\ IF net = "ok"
       THEN AddBulk(Viewer, [array |-> TRUE, items |-> items])
       ELSE UNCHANGED <<now, ingredients, nextId, res, rendered, req, gemini, pushed>>
    /\ UNCHANGED <<recipeView, inflight, preferences, usageStats, receipts, push, accounts, scanner>>

\* addSingleItem(item): the item the server answers with joins the local
\* inventory; the catch block only logs
addSingleItem(item, net) ==
    /\ Idle
    /\ mainApp.backendStatus = "connected"
    /\ Len(mainApp.inventory) < MaxLocal
    /\ IF net = "ok"
       THEN /\ AddItem(Viewer, item)
            /\ mainApp' = IF res'.success
                          THEN [mainApp EXCEPT !.inventory = Append(@, res'.data)]
                          ELSE mainApp
       ELSE UNCHANGED <<now, ingredients, nextId, res, rendered, req, gemini, mainApp>>
    /\ UNCHANGED <<recipeView, inflight, notify, usageStats, receipts, push, accounts, scanner>>

NextFront ==
    \/ LoadDataView /\ UNCHANGED <<notify, usageStats, receipts, push, accounts, scanner>>
    \/ \E i \in 1..Len(mainApp.inventory), net \in Networks :
           deleteItem(mainApp.inventory[i].id, net)
    \/ \E items \in ScannedBatches, net \in Networks : addItems(items, net)
    \/ \E item \in WriteAddBodies, net \in Networks : addSingleItem(item, net)
    \/ Respond /\ UNCHANGED <<client, preferences, usageStats, receipts, push, accounts, scanner>>

SpecFront == Init /\ [][NextFront]_vars

\* The server has stored the local item for the viewer
Stored(item) ==
    \E r \in UserRows(ingredients, Viewer) :
        /\ item.id # 0 => r.id = item.id
        /\ r.name = item.name
        /\ r.category = item.category
        /\ r.quantity = item.quantity
        /\ r.expiry_date = item.expiryDate

\* C28: once the page has loaded the server's inventory, every item of the
\* local inventory is an item the server has stored, after any sequence of
\* single adds, bulk adds and deletes, failed ones included.
C28_LocalItemsAreStored ==
    mainApp.backendStatus = "connected" =>
        \A i \in 1..Len(mainApp.inventory) : Stored(mainApp.inventory[i])

-----------------------------------------------------------------------------
(* ScannerView: processFile, finishSimulated and the error step *)

\* The files dropped on the scanner: one whose OCR fails, one that gives text
ScannedFiles == Uploads \ {"none"}

\* The simulated processing without its last entry
intervals_short == <<15, 30, 50, 85>>

\* intervals[i].p of the simulated processing
intervals == <<15, 30, 50, 85, 100>>

\* The three items finishSimulated sets; the ids are Date.now() with a digit
\* appended, here the digit
SimulatedItems ==
    <<[id |-> 1, name |-> <<"O", "r", "g", "a", "n", "i", "c", " ", "M", "i", "l", "k">>,
       category |-> "Dairy", quantity |-> "1 gallon",
       expiryDate |-> CivilFromDays(FutureDate(now, 14)), confidence |-> "0.95"],
      [id |-> 2, name |-> <<"A", "v", "o", "c", "a", "d", "o", "s">>,
       category |-> "Produce", quantity |-> "3 count",
       expiryDate |-> CivilFromDays(FutureDate(now, 5)), confidence |-> "0.88"],
      [id |-> 3, name |-> <<"G", "r", "o", "u", "n", "d", " ", "B", "e", "e", "f">>,
       category |-> "Meat", quantity |-> "1 lb",
       expiryDate |-> CivilFromDays(FutureDate(now, 4)), confidence |-> "0.92"]>>

\* processFile(file), up to its await or to the start of its interval. The
\* drop zone and the file input are rendered in the upload step only.
processFile(file) ==
    /\ Idle
    /\ mainApp.activeTab = "scan"
    /\ scanner.step = "upload"
    /\ scanner' = IF mainApp.backendStatus = "connected"
                  THEN [scanner EXCEPT !.step = "processing", !.progress = 50,
                                       !.calls = <<0, 15, 30, 50>>,
                                       !.connected = TRUE, !.file = file,
                                       !.awaiting = TRUE]
                  ELSE [scanner EXCEPT !.step = "processing", !.progress = 0,
                                       !.calls = <<0>>,
                                       !.connected = FALSE, !.file = file,
                                       !.interval = TRUE, !.i = 0]
    /\ UNCHANGED <<now, ingredients, nextId, res, rendered, req, gemini>>
    /\ UNCHANGED <<client, notify, usageStats, receipts, push, accounts>>

\* await api.processReceipt(file) settles and processFile runs to its end:
\* with the result it sets the progress and arms the timer; on an answer that
\* is not a success, or on a fetch that rejects, the catch block shows the
\* error step
processReceipt(net, gen) ==
    /\ scanner.awaiting
    /\ IF net = "ok"
       THEN /\ UploadReceipt(Viewer, scanner.file, gen)
            /\ scanner' = IF res'.success
                          THEN [scanner EXCEPT !.awaiting = FALSE, !.progress = 100,
                                               !.calls = @ \o <<85, 100>>,
                                               !.result = res'.items,
                                               !.timer = TRUE]
                          ELSE [scanner EXCEPT !.awaiting = FALSE, !.step = "error"]
       ELSE /\ Idle
            /\ scanner' = [scanner EXCEPT !.awaiting = FALSE, !.step = "error"]
            /\ UNCHANGED <<now, ingredients, nextId, res, rendered, req, gemini, receipts>>
    /\ UNCHANGED <<client, notify, usageStats, push, accounts>>

\* The callback of setTimeout(..., 500)
reviewTimeout ==
    /\ Idle
    /\ scanner.timer
    /\ scanner' = [scanner EXCEPT !.timer = FALSE, !.parsedItems = scanner.result,
                                  !.step = "review"]
    /\ UNCHANGED <<now, ingredients, nextId, res, rendered, req, gemini>>
    /\ UNCHANGED <<client, notify, usageStats, receipts, push, accounts>>

\* finishSimulated()
finishSimulated(view) ==
    [view EXCEPT !.parsedItems = SimulatedItems, !.step = "review"]

\* The callback of setInterval(..., 500)
intervalCallback ==
    /\ Idle
    /\ scanner.interval
    /\ scanner' = IF scanner.i >= Len(intervals)
                  THEN finishSimulated([scanner EXCEPT !.interval = FALSE])
                  ELSE [scanner EXCEPT !.progress = intervals[scanner.i + 1],
                                       !.calls = Append(@, intervals[scanner.i + 1]),
                                       !.i = @ + 1]
    /\ UNCHANGED <<now, ingredients, nextId, res, rendered, req, gemini>>
    /\ UNCHANGED <<client, notify, usageStats, receipts, push, accounts>>

\* A click on Try Again, which the error step renders
TryAgain ==
    /\ Idle
    /\ scanner.step = "error"
    /\ scanner' = [scanner EXCEPT !.step = "upload"]
    /\ UNCHANGED <<now, ingredients, nextId, res, rendered, req, gemini>>
    /\ UNCHANGED <<client, notify, usageStats, receipts, push, accounts>>

\* One ScannerView from its mount on: the page loads, the user opens the
\* scan tab and stays there.
NextScan ==
    \/ LoadDataView /\ UNCHANGED <<notify, usageStats, receipts, push, accounts, scanner>>
    \/ LoadDataFails /\ UNCHANGED <<notify, usageStats, receipts, push, accounts, scanner>>
    \/ setActiveTab("scan") /\ UNCHANGED <<notify, usageStats, receipts, push, accounts, scanner>>
    \/ \E file \in ScannedFiles : processFile(file)
    \/ \E net \in Networks, gen \in ParserOutputs : processReceipt(net, gen)
    \/ reviewTimeout
    \/ intervalCallback
    \/ TryAgain
    \/ Respond /\ UNCHANGED <<client, preferences, usageStats, receipts, push, accounts, scanner>>

\* A pending fetch settles, a timer that is due fires, and a response that
\* is written is sent.
ScanFairness ==
    /\ WF_vars(\E net \in Networks, gen \in ParserOutputs : processReceipt(net, gen))
    /\ WF_vars(reviewTimeout)
    /\ WF_vars(intervalCallback)
    /\ WF_vars(Respond /\ UNCHANGED <<client, preferences, usageStats, receipts, push,
                                      accounts, scanner>>)

SpecScan == Init /\ [][NextScan]_vars /\ ScanFairness

\* The arguments of the setProgress calls of a run never go down
NonDecreasing(calls) ==
    \A k \in 1..(Len(calls) - 1) : calls[k] <= calls[k + 1]

C30_WitnessSimulated ==
    /\ scanner.step = "review"
    /\ ~scanner.connected
    /\ scanner.calls = <<0>> \o intervals
    /\ scanner.parsedItems = SimulatedItems

====
